---- MODULE Spec2Model ----
(***************************************************************************)
(* gas2mqtt: the hysteresis comparator (domain/schmitt.py), the            *)
(* consumption accumulator (domain/consumption.py) and the meter polling   *)
(* loop with its command handler (devices/gas_counter.py).                 *)
(*                                                                         *)
(* Two state machines share the comparator operators:                      *)
(*   SpecSchmitt / SpecUpdates : one SchmittTrigger object driven by       *)
(*                               update() and reset() calls;               *)
(*   Spec                      : the gas_counter coroutine, its command    *)
(*                               handler, the shutdown signal.             *)
(*                                                                         *)
(* Volumes are exact decimals held as integers in units of 10^-6 m3        *)
(* (one millilitre); liters_per_tick is held in millilitres, so that       *)
(* liters_per_tick / 1000.0 m3 is liters_per_tick units.                   *)
(***************************************************************************)
EXTENDS Integers, Sequences, FiniteSets, TLC

\* ------------------------------------------------------------------ bounds

\* SpecSchmitt: level in -MaxLevel..MaxLevel, hysteresis in 0..MaxHyst.
MaxLevel == 1
MaxHyst == 2
\* Spec: loop iterations and commands handled in one run.
MaxPolls == 3
MaxCmds == 2
\* SpecRestart: instances started after the first one.
MaxRestarts == 1
\* SpecEwma, SpecTemp: update() calls on one filter.
MaxSamples == 3
MaxCalls == 5

\* ------------------------------------------------- domain/schmitt.py

LOW == "low"
HIGH == "high"
TriggerState == {LOW, HIGH}

\* "none" stands for update() returning None.
NoEvent == [kind |-> "none", previous |-> LOW, current |-> LOW, is_rising_edge |-> FALSE]

TriggerEvent(previous, current, is_rising_edge) ==
    [kind |-> "event", previous |-> previous, current |-> current,
     is_rising_edge |-> is_rising_edge]

\* Mutant: thresholds compared with >= and <= (the boundary values cross).
new_state_inclusive(level, hysteresis, bz) ==
    LET upper == level + hysteresis
        lower == level - hysteresis
    IN  IF bz >= upper THEN HIGH
        ELSE IF bz <= lower THEN LOW
        ELSE "band"

\* update(), lines 66-74: the candidate state, "band" for the early return
\* inside the hysteresis band.
new_state(level, hysteresis, bz) ==
    LET upper == level + hysteresis
        lower == level - hysteresis
    IN  IF bz > upper THEN HIGH
        ELSE IF bz < lower THEN LOW
        ELSE "band"

\* Mutant: previous is read after self._state was assigned.
transition_previous_after(state, candidate) ==
    [state |-> candidate,
     event |-> TriggerEvent(candidate, candidate, candidate = LOW /\ candidate = HIGH)]

\* update(), lines 80-87: record previous, assign, build the event.
transition(state, candidate) ==
    LET previous == state
        is_rising == previous = LOW /\ candidate = HIGH
    IN  [state |-> candidate, event |-> TriggerEvent(previous, candidate, is_rising)]

\* Mutant: the "new_state == self._state" early return is missing.
update_no_dedup(state, level, hysteresis, bz) ==
    LET cand == new_state(level, hysteresis, bz)
    IN  IF cand = "band" THEN [state |-> state, event |-> NoEvent]
        ELSE transition(state, cand)

\* SchmittTrigger.update: the new _state and the returned event.
update(state, level, hysteresis, bz) ==
    LET cand == new_state(level, hysteresis, bz)
    IN  IF cand = "band" THEN [state |-> state, event |-> NoEvent]
        ELSE IF cand = state THEN [state |-> state, event |-> NoEvent]
        ELSE transition(state, cand)

\* Mutant: reset leaves the state as it is.
reset_keep(state) == state

\* SchmittTrigger.reset: the new _state.
reset(state) == LOW

\* ---------------------------------------------- domain/consumption.py

\* "consumption is None": tracking disabled, no accumulator.
NoTracker == [present |-> FALSE, liters_per_tick |-> 0, consumption_m3 |-> 0]

\* ConsumptionTracker.__init__
ConsumptionTracker(liters_per_tick, initial_m3) ==
    [present |-> TRUE, liters_per_tick |-> liters_per_tick, consumption_m3 |-> initial_m3]

\* ConsumptionTracker.tick: adds liters_per_tick / 1000.0 m3.
tick(c) == [c EXCEPT !.consumption_m3 = @ + c.liters_per_tick]

\* ConsumptionTracker.set_consumption
set_consumption(c, m3) == [c EXCEPT !.consumption_m3 = m3]

\* ---------------------------------------------------- domain/ewma.py

\* alpha is held in tenths: alpha = ewma_alpha / AlphaDen.
AlphaDen == 10

RECURSIVE Pow10(_)
Pow10(n) == IF n = 0 THEN 1 ELSE 10 * Pow10(n - 1)

\* Temperatures are exact decimals held as integers in units of
\* 1 / TempUnit degrees. The inputs have one decimal and each smoothing
\* step adds one, so MaxSamples updates stay exact.
TempUnit == 10 * Pow10(MaxSamples)

\* EwmaFilter.__init__: _value is None.
NoValue == [has |-> FALSE, v |-> 0]

\* Mutant: the weights of the previous and the raw value are swapped.
ewma_update_swapped(alpha, value, raw) ==
    IF ~value.has
    THEN [has |-> TRUE, v |-> raw]
    ELSE [has |-> TRUE, v |-> (alpha * value.v + (AlphaDen - alpha) * raw) \div AlphaDen]

\* EwmaFilter.update: the new _value, which is also what is returned.
ewma_update(alpha, value, raw) ==
    IF ~value.has
    THEN [has |-> TRUE, v |-> raw]
    ELSE [has |-> TRUE, v |-> ((AlphaDen - alpha) * value.v + alpha * raw) \div AlphaDen]

\* EwmaFilter.reset
ewma_reset(value) == NoValue

\* ------------------------------------------- devices/temperature.py

\* round(x, 1): to the nearest 0.1, ties to even; the result is in tenths
\* of a degree.
round1(x) ==
    LET u == TempUnit \div 10
        q == x \div u
        r == x % u
    IN  IF 2 * r > u \/ (2 * r = u /\ q % 2 = 1) THEN q + 1 ELSE q

\* raw_celsius = temp_scale * reading.temperature_raw + temp_offset, with
\* temp_scale in thousandths and temp_offset in tenths of a degree.
raw_celsius(settings, temperature_raw) ==
    (settings.temp_scale * temperature_raw * TempUnit) \div 1000
        + settings.temp_offset * (TempUnit \div 10)

\* Mutant: each call smooths with a filter that has no value yet.
temperature_handler_fresh(settings, alpha, value, temperature_raw) ==
    LET filtered == ewma_update(alpha, NoValue, raw_celsius(settings, temperature_raw))
    IN  [value |-> filtered, temperature |-> round1(filtered.v)]

\* The handler built by make_temperature_handler: one filter for all calls,
\* updated by every call; the payload is the filtered value to one decimal.
temperature_handler(settings, alpha, value, temperature_raw) ==
    LET filtered == ewma_update(alpha, value, raw_celsius(settings, temperature_raw))
    IN  [value |-> filtered, temperature |-> round1(filtered.v)]

\* OnChange(threshold={"temperature": 0.05}), in hundredths of a degree.
OnChangeThreshold == 5

AbsDiff(a, b) == IF a >= b THEN a - b ELSE b - a

\* The on-change publish gate of the framework: the first payload is
\* published, a later one only when it differs from the last published one
\* by more than the threshold. Payloads are in tenths of a degree.
on_change(last, temperature) ==
    ~last.has \/ 10 * AbsDiff(temperature, last.v) > OnChangeThreshold

\* ------------------------------------------- devices/gas_counter.py

COUNTER_MODULUS == 65536

\* One 10^-6 m3 unit per m3, and per 0.001 m3 (the 3 decimals of round(x, 3)).
UnitsPerM3 == 1000000
UnitsPerMilli == 1000

\* A JSON value held in the device store, or a missing key.
\*   absent    the key is not in the record
\*   int       a JSON integer, v its value
\*   float     a JSON number with a fraction or exponent, v in 10^-6 units
\*   str_int   a string holding an integer literal ("42"), v its value
\*   str_float a string holding a decimal literal ("1.5"), v in 10^-6 units
\*   str_bad   a string that is no number ("abc")
\*   bool      true or false, v 1 or 0
\*   null      JSON null
\*   other     a list or an object
Raw(k, v) == [k |-> k, v |-> v]
Absent == Raw("absent", 0)

\* int(x) of a float: truncation toward zero.
int_of_float(v) == IF v >= 0 THEN v \div UnitsPerM3 ELSE -((-v) \div UnitsPerM3)

\* round(x, 3): to the nearest 0.001, ties to even.
round3(v) ==
    LET q == v \div UnitsPerMilli
        r == v % UnitsPerMilli
    IN  IF 2 * r > UnitsPerMilli \/ (2 * r = UnitsPerMilli /\ q % 2 = 1)
        THEN (q + 1) * UnitsPerMilli
        ELSE q * UnitsPerMilli

\* _restore_counter: store.get("counter", 0), then int(raw) for an int, float
\* or str and 0 for any other type. ok = FALSE: int() raised ValueError.
_restore_counter(store) ==
    LET raw == IF store.counter.k = "absent" THEN Raw("int", 0) ELSE store.counter
    IN  CASE raw.k \in {"int", "bool", "str_int"} -> [ok |-> TRUE, value |-> raw.v]
          [] raw.k = "float" -> [ok |-> TRUE, value |-> int_of_float(raw.v)]
          [] raw.k \in {"str_float", "str_bad"} -> [ok |-> FALSE, value |-> 0]
          [] OTHER -> [ok |-> TRUE, value |-> 0]

\* Mutant: the stored consumption_m3 is ignored.
restore_consumption_fresh(store, settings) ==
    IF ~settings.enable_consumption_tracking THEN [ok |-> TRUE, value |-> NoTracker]
    ELSE [ok |-> TRUE, value |-> ConsumptionTracker(settings.liters_per_tick, 0)]

\* _restore_consumption: None when tracking is disabled; store.get(
\* "consumption_m3") is None for a missing key and for JSON null.
_restore_consumption(store, settings) ==
    LET raw == store.consumption_m3
    IN  IF ~settings.enable_consumption_tracking THEN [ok |-> TRUE, value |-> NoTracker]
        ELSE CASE raw.k \in {"absent", "null"} ->
                    [ok |-> TRUE, value |-> ConsumptionTracker(settings.liters_per_tick, 0)]
               [] raw.k \in {"int", "bool", "str_int"} ->
                    [ok |-> TRUE,
                     value |-> ConsumptionTracker(settings.liters_per_tick, raw.v * UnitsPerM3)]
               [] raw.k \in {"float", "str_float"} ->
                    [ok |-> TRUE, value |-> ConsumptionTracker(settings.liters_per_tick, raw.v)]
               [] raw.k = "str_bad" -> [ok |-> FALSE, value |-> NoTracker]
               [] OTHER ->
                    [ok |-> TRUE, value |-> ConsumptionTracker(settings.liters_per_tick, 0)]

\* Mutant: the trigger strings are swapped.
build_state_swapped(counter, state, consumption) ==
    [counter |-> counter,
     trigger |-> IF state = HIGH THEN "OPEN" ELSE "CLOSED",
     has_consumption |-> consumption.present,
     consumption_m3 |-> IF consumption.present THEN round3(consumption.consumption_m3) ELSE 0]

\* _build_state: the published payload. has_consumption = FALSE: no
\* consumption_m3 key.
_build_state(counter, state, consumption) ==
    [counter |-> counter,
     trigger |-> IF state = HIGH THEN "CLOSED" ELSE "OPEN",
     has_consumption |-> consumption.present,
     consumption_m3 |-> IF consumption.present THEN round3(consumption.consumption_m3) ELSE 0]

\* What store.update() writes for a snapshot: every key of the snapshot but
\* trigger, which _save_state pops.
persisted_fields(snapshot, old) ==
    [counter |-> Raw("int", snapshot.counter),
     consumption_m3 |-> IF snapshot.has_consumption
                        THEN Raw("float", snapshot.consumption_m3)
                        ELSE old.consumption_m3]

\* Mutant: the save is skipped.
save_state_skip(store, counter, state, consumption) ==
    store

\* Mutant: the accumulator's unrounded total is saved.
save_state_unrounded(store, counter, state, consumption) ==
    [store EXCEPT !.counter = Raw("int", counter),
                  !.consumption_m3 = IF consumption.present
                                     THEN Raw("float", consumption.consumption_m3)
                                     ELSE @]

\* _save_state: build the snapshot, pop trigger, store.update(state),
\* store.save(). update() merges: keys of the loaded record that the
\* snapshot lacks stay in the store.
_save_state(store, counter, state, consumption) ==
    LET snapshot == _build_state(counter, state, consumption)
        f == persisted_fields(snapshot, store)
    IN  [store EXCEPT !.counter = f.counter, !.consumption_m3 = f.consumption_m3]

\* Mutant: every successful read is published.
process_poll_always_publish(state, level, hysteresis, counter, consumption, bz) ==
    LET r == update(state, level, hysteresis, bz)
        rising == r.event.kind = "event" /\ r.event.is_rising_edge
    IN  [state |-> r.state, event |-> r.event,
         counter |-> IF rising THEN (counter + 1) % COUNTER_MODULUS ELSE counter,
         consumption |-> IF rising /\ consumption.present THEN tick(consumption) ELSE consumption,
         should_publish |-> TRUE]

\* Mutant: tick() on every comparator event.
process_poll_tick_every_event(state, level, hysteresis, counter, consumption, bz) ==
    LET r == update(state, level, hysteresis, bz)
        rising == r.event.kind = "event" /\ r.event.is_rising_edge
    IN  [state |-> r.state, event |-> r.event,
         counter |-> IF rising THEN (counter + 1) % COUNTER_MODULUS ELSE counter,
         consumption |-> IF r.event.kind = "event" /\ consumption.present
                         THEN tick(consumption) ELSE consumption,
         should_publish |-> r.event.kind = "event"]

\* Mutant: the counter is incremented on every comparator event.
process_poll_count_every_event(state, level, hysteresis, counter, consumption, bz) ==
    LET r == update(state, level, hysteresis, bz)
        rising == r.event.kind = "event" /\ r.event.is_rising_edge
    IN  [state |-> r.state, event |-> r.event,
         counter |-> IF r.event.kind = "event"
                     THEN (counter + 1) % COUNTER_MODULUS ELSE counter,
         consumption |-> IF rising /\ consumption.present THEN tick(consumption) ELSE consumption,
         should_publish |-> r.event.kind = "event"]

\* _process_poll after a successful magnetometer.read(): the comparator's
\* new state, the event, the counter, the accumulator, should_publish.
_process_poll(state, level, hysteresis, counter, consumption, bz) ==
    LET r == update(state, level, hysteresis, bz)
        rising == r.event.kind = "event" /\ r.event.is_rising_edge
    IN  [state |-> r.state, event |-> r.event,
         counter |-> IF rising THEN (counter + 1) % COUNTER_MODULUS ELSE counter,
         consumption |-> IF rising /\ consumption.present THEN tick(consumption) ELSE consumption,
         should_publish |-> r.event.kind = "event"]

\* A command payload.
\*   invalid_json     json.loads raises JSONDecodeError
\*   scalar           valid JSON number, true, false or null: the "in" test
\*                    raises TypeError
\*   list             a JSON list: "consumption_m3" in data is False
\*   missing          an object without consumption_m3
\*   number           {"consumption_m3": <number>}, v in 10^-6 units
\*   numeric_string   {"consumption_m3": "<decimal literal>"}: float() parses it
\*   bad_string       {"consumption_m3": "abc"}: float() raises ValueError
\*   bad_type         {"consumption_m3": null | [..] | {..}}: float() raises
\*                    TypeError
\*   huge_int         {"consumption_m3": <integer literal beyond the float
\*                    range>}: float() raises OverflowError
Payload(k, v) == [k |-> k, v |-> v]

\* Mutant: the "consumption is None" early return is missing.
handle_command_unguarded(consumption, payload) ==
    CASE payload.k \in {"number", "numeric_string"} ->
              [consumption |-> set_consumption(consumption, payload.v),
               publish |-> TRUE, log |-> "info"]
      [] payload.k \in {"list", "missing"} ->
              [consumption |-> consumption, publish |-> FALSE, log |-> "none"]
      [] payload.k = "huge_int" ->
              [consumption |-> consumption, publish |-> FALSE, log |-> "raised"]
      [] OTHER ->
              [consumption |-> consumption, publish |-> FALSE, log |-> "error"]

\* handle_command up to its publish: the accumulator, whether the snapshot
\* is published (and then saved), and what is logged ("raised": an
\* exception leaves the handler).
handle_command(consumption, payload) ==
    IF ~consumption.present
    THEN [consumption |-> consumption, publish |-> FALSE, log |-> "warning"]
    ELSE CASE payload.k \in {"number", "numeric_string"} ->
                [consumption |-> set_consumption(consumption, payload.v),
                 publish |-> TRUE, log |-> "info"]
           [] payload.k \in {"list", "missing"} ->
                [consumption |-> consumption, publish |-> FALSE, log |-> "none"]
           \* float() of an int beyond the float range raises OverflowError,
           \* which the except clause (line 157) does not name
           [] payload.k = "huge_int" ->
                [consumption |-> consumption, publish |-> FALSE, log |-> "raised"]
           [] OTHER ->
                [consumption |-> consumption, publish |-> FALSE, log |-> "error"]

\* Mutant: while True.
loop_continues_always(shutdown_requested) == TRUE

\* Line 172: the while condition.
loop_continues(shutdown_requested) == ~shutdown_requested

\* Mutant: OSError is not caught.
on_oserror_propagate(state, counter, consumption) ==
    [state |-> state, counter |-> counter, consumption |-> consumption,
     should_publish |-> FALSE, next |-> "crashed"]

\* Mutant: the except clause leaves the loop.
on_oserror_break(state, counter, consumption) ==
    [state |-> state, counter |-> counter, consumption |-> consumption,
     should_publish |-> FALSE, next |-> "done"]

\* Lines 184-185: the except clause of an iteration whose read raised
\* OSError: the locals are as before the read, nothing is published, and
\* control goes on to the sleep of line 186.
on_oserror(state, counter, consumption) ==
    [state |-> state, counter |-> counter, consumption |-> consumption,
     should_publish |-> FALSE, next |-> "sleep"]

\* -------------------------------------------- adapters/json_storage.py

\* The keys records are stored under (device names) and the records.
Keys == {"gas_counter", "other"}
NoData == "none"
DataSet == {"d1", "d2"}
EmptyMap == [key \in Keys |-> NoData]

\* The content of a file.
\*   absent        no such file
\*   object        a JSON object, m its record under each key
\*   nonobject     valid JSON whose top level is a list, a number, a string
\*                 or null
\*   invalid_json  text that json.loads rejects
\*   partial       the beginning of a JSON text (a write that stopped)
\*   undecodable   bytes that are not UTF-8
\*   unreadable    read_text raises OSError (a directory, no permission)
File(k, m) == [k |-> k, m |-> m]
NoFile == File("absent", EmptyMap)
FileKinds ==
    {"absent", "object", "nonobject", "invalid_json", "partial", "undecodable", "unreadable"}

\* The outcome of a call: how it ended, its key and the data it returned
\* (load) or was given (save).
Call(outcome, key, data) == [outcome |-> outcome, key |-> key, data |-> data]

\* json.loads(self._path.read_text(encoding="utf-8")) on a file that exists:
\* the parsed value, or the exception raised.
read_json(f) ==
    CASE f.k = "object" -> [outcome |-> "value", is_dict |-> TRUE, m |-> f.m]
      [] f.k = "nonobject" -> [outcome |-> "value", is_dict |-> FALSE, m |-> EmptyMap]
      [] f.k \in {"invalid_json", "partial"} ->
            [outcome |-> "JSONDecodeError", is_dict |-> FALSE, m |-> EmptyMap]
      [] f.k = "undecodable" ->
            [outcome |-> "UnicodeDecodeError", is_dict |-> FALSE, m |-> EmptyMap]
      [] OTHER -> [outcome |-> "OSError", is_dict |-> FALSE, m |-> EmptyMap]

\* JsonFileStorage.load: None when the file does not exist; data.get(key)
\* of the parsed value, which raises AttributeError when the value is not a
\* dict; None when JSONDecodeError or OSError is caught. UnicodeDecodeError
\* is a ValueError and is not caught.
load(f, key) ==
    IF f.k = "absent" THEN Call("returned", key, NoData)
    ELSE LET r == read_json(f)
         IN  CASE r.outcome = "value" /\ r.is_dict -> Call("returned", key, r.m[key])
               [] r.outcome = "value" /\ ~r.is_dict -> Call("raised", key, NoData)
               [] r.outcome \in {"JSONDecodeError", "OSError"} ->
                     Call("returned", key, NoData)
               [] OTHER -> Call("raised", key, NoData)

\* Mutant: every save starts from an empty object.
save_existing_fresh(f, key, data) ==
    [outcome |-> "ok", m |-> [EmptyMap EXCEPT ![key] = data]]

\* JsonFileStorage.save, lines 56-63: the object to write. It starts from
\* the parsed file, or from {} when there is no file or JSONDecodeError or
\* OSError is caught; existing[key] = data raises TypeError when the parsed
\* value is not a dict.
save_existing(f, key, data) ==
    IF f.k = "absent" THEN [outcome |-> "ok", m |-> [EmptyMap EXCEPT ![key] = data]]
    ELSE LET r == read_json(f)
         IN  CASE r.outcome = "value" /\ r.is_dict ->
                     [outcome |-> "ok", m |-> [r.m EXCEPT ![key] = data]]
               [] r.outcome = "value" /\ ~r.is_dict ->
                     [outcome |-> "raised", m |-> EmptyMap]
               [] r.outcome \in {"JSONDecodeError", "OSError"} ->
                     [outcome |-> "ok", m |-> [EmptyMap EXCEPT ![key] = data]]
               [] OTHER -> [outcome |-> "raised", m |-> EmptyMap]

\* ---------------------------------------------------- adapters/fake.py

\* FakeStorage.load: a copy of the record, or None.
fake_load(store, key) == Call("returned", key, store[key])

\* FakeStorage.save: a copy of the data under the key.
fake_save(store, key, data) == [store EXCEPT ![key] = data]

\* ------------------------------------------------------------- settings

\* Gas2MqttSettings defaults: trigger_level, trigger_hysteresis and
\* liters_per_tick (10.0 l, in millilitres).
DefaultLevel == -5000
DefaultHysteresis == 700
DefaultLitersPerTick == 10000

Settings(level, hysteresis, tracking, lpt) ==
    [trigger_level |-> level, trigger_hysteresis |-> hysteresis,
     enable_consumption_tracking |-> tracking, liters_per_tick |-> lpt]

\* The configurations a run starts with.
SettingsSet ==
    {Settings(DefaultLevel, DefaultHysteresis, FALSE, DefaultLitersPerTick),
     Settings(DefaultLevel, DefaultHysteresis, TRUE, DefaultLitersPerTick),
     \* 0.5 l per tick: the per-tick volume has a 4th decimal
     Settings(0, 0, TRUE, 500),
     Settings(0, 0, FALSE, DefaultLitersPerTick)}

\* The device store as loaded at startup: a record this program saved, a
\* record with out-of-range or malformed fields, a record with a trigger key.
StoreRecord(counter, consumption_m3, has_trigger) ==
    [counter |-> counter, consumption_m3 |-> consumption_m3, has_trigger |-> has_trigger]

LoadedRecords ==
    {StoreRecord(Absent, Absent, FALSE),
     StoreRecord(Raw("int", 41), Raw("float", 99500000), FALSE),
     StoreRecord(Raw("int", COUNTER_MODULUS - 1), Raw("float", 1234000), FALSE),
     StoreRecord(Raw("int", COUNTER_MODULUS + 4464), Absent, FALSE),
     StoreRecord(Raw("int", -1), Raw("int", 3), FALSE),
     StoreRecord(Raw("float", 2500000), Raw("float", -2000000), FALSE),
     StoreRecord(Raw("str_int", 7), Raw("str_float", 1500000), FALSE),
     StoreRecord(Raw("str_bad", 0), Absent, FALSE),
     StoreRecord(Raw("int", 3), Raw("str_bad", 0), FALSE),
     StoreRecord(Raw("null", 0), Raw("null", 0), FALSE),
     StoreRecord(Raw("other", 0), Raw("other", 0), FALSE),
     StoreRecord(Raw("int", 5), Raw("float", 10000), TRUE)}

\* The readings a poll can return: below, on and above each threshold.
BzInputs(level, hysteresis) ==
    {level - hysteresis - 1, level - hysteresis, level,
     level + hysteresis, level + hysteresis + 1}

\* The command payloads delivered to the handler.
Payloads ==
    {Payload("number", 55500000), Payload("number", 1234567),
     Payload("invalid_json", 0), Payload("missing", 0),
     Payload("scalar", 0), Payload("list", 0),
     Payload("numeric_string", 2500000), Payload("bad_type", 0),
     Payload("huge_int", 0)}

\* ------------------------------------------------------------------ state

VARIABLES
    \* SchmittTrigger: _level, _hysteresis, _state
    trig_level, trig_hysteresis, trig_state,
    \* the calls made on one SchmittTrigger object (SpecSchmitt): the last
    \* two operations and their inputs, the state before the last call, the
    \* event it returned, the current of the last two emitted events
    lastOp, prevOp, lastBz, prevBz, prevState, lastEvent, lastEmitted, prevEmitted,
    \* gas_counter: ctx.settings, the store, the coroutine's position, its
    \* locals counter and consumption, ctx.shutdown_requested
    settings, store, pc, counter, consumption, shutdown,
    \* the command handler's position
    cmdPc,
    \* the transport: the last payload handed to publish_state, and how many
    nPublished, lastPublished,
    \* the snapshot each path published in its sequence in progress
    pollSnap, cmdSnap,
    \* history: store saves, loop iterations, commands, comparator events and
    \* rising edges in the loop, publishes by commands, the restored counter,
    \* the outcome of the last iteration's read
    nSaves, nPolls, nCmds, nEvents, nRising, nCmdPublished, restored, lastPoll,
    \* history: the failed reads in a row up to the last successful read, the
    \* last command and what the handler logged, the value the accumulator
    \* was last set to and the rising edges since, shutdown_requested on entry, the instances
    \* started before this one and the comparator state the last one ended in
    failRun, lastCmd, base, ticksSince, entryShutdown, run, trigAtStop,
    \* history: whether shutdown was requested while an iteration awaited its
    \* publish ("pub") or at another point ("elsewhere")
    shutdownAt

schmittVars == <<lastOp, prevOp, lastBz, prevBz, prevState, lastEvent, lastEmitted, prevEmitted>>
configVars == <<trig_level, trig_hysteresis, settings>>
loopVars == <<store, pc, counter, consumption, shutdown, cmdPc, nPublished, lastPublished,
              pollSnap, cmdSnap, nSaves, nPolls, nCmds, nEvents, nRising, nCmdPublished,
              restored, lastPoll>>
auditVars == <<failRun, lastCmd, base, ticksSince, entryShutdown, run, trigAtStop,
               shutdownAt>>

\* The other components of the application. Each has its own state
\* machine below; the gas_counter loop and the comparator leave them alone.
VARIABLES
    \* EwmaFilter: _alpha (in tenths), _value ([has |-> FALSE]: None)
    ewma_alpha, ewma_value,
    \* the calls made on the filter: the last operation, _value before it,
    \* its argument and what it returned; the update() calls so far
    ewmaOp, ewmaBefore, ewmaRaw, ewmaOut, nSamples,
    \* the temperature telemetry: the calibration settings, the payload the
    \* handler returned last, the payload last published (the publish
    \* strategy's memory), whether the last payload was published, and how
    \* many were
    temp_settings, tempPayload, tempLast, tempWasPublished, nTempPublished,
    \* JsonFileStorage: whether _path already ends in ".tmp", the backing
    \* file, the temporary file, the position inside save(), the key, data
    \* and content of the save in progress
    stPathTmp, file, tmpFile, stPc, pending,
    \* the outcome of the last save() and load(), the record each key should
    \* hold, the backing file before the save in progress
    lastSave, lastLoad, expect, fileBefore,
    \* FakeStorage: _store, the outcome of its last load(), the record each
    \* key should hold
    fake, fakeLoad, fakeExpect,
    \* lifespan: its position, the calls of initialize() and close(), how
    \* the body ended and how the context manager ended
    lsPc, nInitialize, nClose, bodyOutcome, lsOutcome,
    \* magnetometer_device: settings.enable_debug_device, its position,
    \* ctx.shutdown_requested, the sensor reads and publishes it made, the
    \* reads made after a sleep although shutdown had been requested, the
    \* payload last published
    dbgEnabled, dbgPc, dbgShutdown, nDbgReads, nDbgPublished, dbgLate, dbgLast,
    \* Qmc5883lAdapter: _bus ("none": None), the SMBus objects that are open,
    \* the calls made, the last call, how it ended and whether it made a
    \* transfer on the bus; the two bytes last converted and the result
    bus, nOpen, nCalls, adLast, rdLsb, rdMsb, rdValue

ewmaVars == <<ewma_alpha, ewma_value, ewmaOp, ewmaBefore, ewmaRaw, ewmaOut, nSamples>>
tempVars == <<temp_settings, tempPayload, tempLast, tempWasPublished, nTempPublished>>
storageVars == <<stPathTmp, file, tmpFile, stPc, pending, lastSave, lastLoad, expect,
                 fileBefore>>
fakeVars == <<fake, fakeLoad, fakeExpect>>
lifespanVars == <<lsPc, nInitialize, nClose, bodyOutcome, lsOutcome>>
debugVars == <<dbgEnabled, dbgPc, dbgShutdown, nDbgReads, nDbgPublished, dbgLate, dbgLast>>
adapterVars == <<bus, nOpen, nCalls, adLast, rdLsb, rdMsb, rdValue>>
sideVars ==
    <<ewmaVars, tempVars, storageVars, fakeVars, lifespanVars, debugVars, adapterVars>>
gasVars == <<trig_state, schmittVars, configVars, loopVars, auditVars>>
vars == <<gasVars, sideVars>>

\* Gas2MqttSettings defaults: temp_scale (0.008, in thousandths) and
\* temp_offset (20.3, in tenths).
TempSettings(scale, offset) == [temp_scale |-> scale, temp_offset |-> offset]
DefaultTempSettings == TempSettings(8, 203)
\* ewma_alpha (0.2, in tenths).
DefaultAlpha == 2

NoCall == [outcome |-> "none", key |-> "none", data |-> NoData]

\* A filter and a telemetry on which nothing was called yet.
EwmaHistoryInit ==
    /\ ewma_value = NoValue
    /\ ewmaOp = "none" /\ ewmaBefore = NoValue /\ ewmaRaw = 0 /\ ewmaOut = 0
    /\ nSamples = 0

TempInit ==
    /\ tempPayload = NoValue /\ tempLast = NoValue
    /\ tempWasPublished = FALSE /\ nTempPublished = 0

\* No call in progress or made on the storage adapters.
StorageHistoryInit ==
    /\ tmpFile = NoFile
    /\ stPc = "idle"
    /\ pending = [key |-> "none", data |-> NoData, content |-> NoFile]
    /\ lastSave = NoCall /\ lastLoad = NoCall
    /\ fileBefore = file

FakeInit ==
    /\ fake = EmptyMap /\ fakeLoad = NoCall /\ fakeExpect = EmptyMap

LifespanInit ==
    /\ lsPc = "before"
    /\ nInitialize = 0 /\ nClose = 0
    /\ bodyOutcome = "none" /\ lsOutcome = "none"

\* The components a specification does not exercise stay as constructed.
EwmaIdle == ewma_alpha = DefaultAlpha /\ EwmaHistoryInit
TempIdle == temp_settings = DefaultTempSettings /\ TempInit
StorageIdle ==
    /\ stPathTmp = FALSE /\ file = NoFile /\ expect = EmptyMap
    /\ StorageHistoryInit
    /\ FakeInit
LifespanIdle == LifespanInit

\* No reading: the device has published nothing.
NoReading == [bx |-> 0, by |-> 0, bz |-> 0, has |-> FALSE]

\* magnetometer_device has not been entered.
DebugInit ==
    /\ dbgPc = "start"
    /\ nDbgReads = 0 /\ nDbgPublished = 0 /\ dbgLate = 0
    /\ dbgLast = NoReading

DebugIdle == dbgEnabled = FALSE /\ dbgShutdown = FALSE /\ DebugInit

\* A call on the adapter: the method, how it ended, whether it made a
\* transfer on the bus.
AdCall(op, outcome, touched) == [op |-> op, outcome |-> outcome, touched |-> touched]

\* Qmc5883lAdapter.__init__: _bus is None; no call made, no bytes converted.
AdapterInit ==
    /\ bus = "none" /\ nOpen = 0 /\ nCalls = 0
    /\ adLast = AdCall("none", "none", FALSE)

AdapterIdle == AdapterInit /\ rdLsb = 0 /\ rdMsb = 0 /\ rdValue = 0

\* The components of this part of the module that are not in use.
RestIdle == DebugIdle /\ AdapterIdle

NoCommand == [k |-> "none", v |-> 0, log |-> "none"]

NoSnapshot == [counter |-> 0, trigger |-> "OPEN", has_consumption |-> FALSE, consumption_m3 |-> 0]

\* The points where the coroutine is suspended in an await: publish_state
\* (lines 169, 182) and ctx.sleep (line 186).
AwaitPoints == {"init_pub", "pub", "sleep"}

SchmittHistoryInit ==
    /\ lastOp = "none" /\ prevOp = "none"
    /\ lastBz = 0 /\ prevBz = 0
    /\ prevState = LOW
    /\ lastEvent = NoEvent
    /\ lastEmitted = "none" /\ prevEmitted = "none"

LoopInit ==
    /\ pc = "start"
    /\ counter = 0
    /\ consumption = NoTracker
    /\ shutdown \in BOOLEAN
    /\ cmdPc = "idle"
    /\ nPublished = 0 /\ lastPublished = NoSnapshot
    /\ pollSnap = NoSnapshot /\ cmdSnap = NoSnapshot
    /\ nSaves = 0 /\ nPolls = 0 /\ nCmds = 0 /\ nEvents = 0 /\ nRising = 0
    /\ nCmdPublished = 0 /\ restored = 0
    /\ lastPoll = "none"
    /\ failRun = 0 /\ lastCmd = NoCommand
    /\ base = 0 /\ ticksSince = 0
    /\ entryShutdown = FALSE
    /\ run = 0 /\ trigAtStop = LOW
    /\ shutdownAt = "none"

\* gas_counter is entered with the settings and the loaded store.
Init ==
    /\ settings \in SettingsSet
    /\ store \in LoadedRecords
    /\ trig_level = settings.trigger_level
    /\ trig_hysteresis = settings.trigger_hysteresis
    /\ trig_state = LOW
    /\ SchmittHistoryInit
    /\ LoopInit
    /\ EwmaIdle /\ TempIdle /\ StorageIdle /\ LifespanIdle
    /\ RestIdle

\* ---------------------------------------------------------- gas_counter

\* Lines 123-169: construct the comparator, restore, register the handler,
\* publish the initial snapshot. A ValueError from int() or float() leaves
\* the coroutine before anything is published.
Start ==
    /\ pc = "start"
    /\ LET rc == _restore_counter(store)
           rs == _restore_consumption(store, settings)
       IN  IF rc.ok /\ rs.ok
           THEN /\ counter' = rc.value
                /\ restored' = rc.value
                /\ consumption' = rs.value
                /\ lastPublished' = _build_state(rc.value, LOW, rs.value)
                /\ pollSnap' = _build_state(rc.value, LOW, rs.value)
                /\ nPublished' = nPublished + 1
                /\ base' = rs.value.consumption_m3
                /\ pc' = "init_pub"
           ELSE /\ pc' = "crashed"
                /\ UNCHANGED <<counter, restored, consumption, lastPublished, pollSnap,
                               nPublished, base>>
    /\ trig_state' = LOW
    /\ entryShutdown' = shutdown
    /\ UNCHANGED sideVars
    /\ UNCHANGED <<schmittVars, configVars, store, shutdown, cmdPc, cmdSnap, nSaves, nPolls,
                   nCmds, nEvents, nRising, nCmdPublished, lastPoll, failRun, lastCmd,
                   ticksSince, run, trigAtStop,
                   shutdownAt>>

\* Line 170: the initial publish returned; save.
InitSave ==
    /\ pc = "init_pub"
    /\ store' = _save_state(store, counter, trig_state, consumption)
    /\ nSaves' = nSaves + 1
    /\ pc' = "check"
    /\ UNCHANGED sideVars
    /\ UNCHANGED <<trig_state, schmittVars, configVars, counter, consumption, shutdown, cmdPc,
                   nPublished, lastPublished, pollSnap, cmdSnap, nPolls, nCmds, nEvents,
                   nRising, nCmdPublished, restored, lastPoll, auditVars>>

\* Line 172: the loop condition.
LoopCheck ==
    /\ pc = "check"
    /\ ~loop_continues(shutdown) \/ nPolls < MaxPolls
    /\ pc' = IF loop_continues(shutdown) THEN "read" ELSE "done"
    /\ UNCHANGED sideVars
    /\ UNCHANGED <<trig_state, schmittVars, configVars, store, counter, consumption, shutdown,
                   cmdPc, nPublished, lastPublished, pollSnap, cmdSnap, nSaves, nPolls, nCmds,
                   nEvents, nRising, nCmdPublished, restored, lastPoll, auditVars>>

\* Lines 173-183 and 186 with a successful read: _process_poll, then either
\* publish (and wait for it) or go to sleep.
Poll ==
    /\ pc = "read"
    /\ \E bz \in BzInputs(trig_level, trig_hysteresis) :
         LET r == _process_poll(trig_state, trig_level, trig_hysteresis, counter,
                                consumption, bz)
             rising == r.event.kind = "event" /\ r.event.is_rising_edge
         IN  /\ trig_state' = r.state
             /\ counter' = r.counter
             /\ consumption' = r.consumption
             /\ lastPoll' = IF r.event.kind = "event" THEN "event" ELSE "no_event"
             /\ nEvents' = IF r.event.kind = "event" THEN nEvents + 1 ELSE nEvents
             /\ nRising' = IF rising THEN nRising + 1 ELSE nRising
             /\ ticksSince' = IF rising THEN ticksSince + 1 ELSE ticksSince
             /\ IF r.should_publish
                THEN /\ lastPublished' = _build_state(r.counter, r.state, r.consumption)
                     /\ pollSnap' = _build_state(r.counter, r.state, r.consumption)
                     /\ nPublished' = nPublished + 1
                     /\ pc' = "pub"
                ELSE /\ pc' = "sleep"
                     /\ UNCHANGED <<lastPublished, pollSnap, nPublished>>
    /\ nPolls' = nPolls + 1
    /\ failRun' = IF lastPoll = "oserror" THEN failRun ELSE 0
    /\ UNCHANGED sideVars
    /\ UNCHANGED <<schmittVars, configVars, store, shutdown, cmdPc, cmdSnap, nSaves, nCmds,
                   nCmdPublished, restored, lastCmd, base, entryShutdown, run, trigAtStop,
                   shutdownAt>>

\* Lines 184-186: magnetometer.read() raised OSError; log and sleep.
PollFail ==
    /\ pc = "read"
    /\ LET r == on_oserror(trig_state, counter, consumption)
       IN  /\ trig_state' = r.state
           /\ counter' = r.counter
           /\ consumption' = r.consumption
           /\ pc' = r.next
           /\ IF r.should_publish
              THEN /\ lastPublished' = _build_state(r.counter, r.state, r.consumption)
                   /\ pollSnap' = _build_state(r.counter, r.state, r.consumption)
                   /\ nPublished' = nPublished + 1
              ELSE UNCHANGED <<lastPublished, pollSnap, nPublished>>
    /\ lastPoll' = "oserror"
    /\ nPolls' = nPolls + 1
    /\ failRun' = IF lastPoll = "oserror" THEN failRun + 1 ELSE 1
    /\ UNCHANGED sideVars
    /\ UNCHANGED <<schmittVars, configVars, store, shutdown, cmdPc, cmdSnap, nSaves, nCmds,
                   nEvents, nRising, nCmdPublished, restored, lastCmd, base, ticksSince,
                   entryShutdown, run, trigAtStop,
                   shutdownAt>>

\* Lines 183 and 186: the iteration's publish returned; save, then sleep.
PollSave ==
    /\ pc = "pub"
    /\ store' = _save_state(store, counter, trig_state, consumption)
    /\ nSaves' = nSaves + 1
    /\ pc' = "sleep"
    /\ UNCHANGED sideVars
    /\ UNCHANGED <<trig_state, schmittVars, configVars, counter, consumption, shutdown, cmdPc,
                   nPublished, lastPublished, pollSnap, cmdSnap, nPolls, nCmds, nEvents,
                   nRising, nCmdPublished, restored, lastPoll, auditVars>>

\* Line 186: ctx.sleep returns, after the interval or early on shutdown.
Wake ==
    /\ pc = "sleep"
    /\ pc' = "check"
    /\ UNCHANGED sideVars
    /\ UNCHANGED <<trig_state, schmittVars, configVars, store, counter, consumption, shutdown,
                   cmdPc, nPublished, lastPublished, pollSnap, cmdSnap, nSaves, nPolls, nCmds,
                   nEvents, nRising, nCmdPublished, restored, lastPoll, auditVars>>

\* The framework sets the shutdown event.
Shutdown ==
    /\ ~shutdown
    /\ pc \notin {"done", "crashed"}
    /\ shutdown' = TRUE
    /\ shutdownAt' = IF pc = "pub" THEN "pub" ELSE "elsewhere"
    /\ UNCHANGED sideVars
    /\ UNCHANGED <<trig_state, schmittVars, configVars, store, pc, counter, consumption, cmdPc,
                   nPublished, lastPublished, pollSnap, cmdSnap, nSaves, nPolls, nCmds, nEvents,
                   nRising, nCmdPublished, restored, lastPoll, failRun, lastCmd,
                   base, ticksSince, entryShutdown, run, trigAtStop>>

\* Lines 145-155 and 157-158: a command is delivered while the coroutine is
\* suspended; the handler runs up to its publish, or returns.
CommandWith(payloads) ==
    /\ pc \in AwaitPoints
    /\ cmdPc = "idle"
    /\ nCmds < MaxCmds
    /\ \E payload \in payloads :
         LET h == handle_command(consumption, payload)
         IN  /\ consumption' = h.consumption
             /\ lastCmd' = [k |-> payload.k, v |-> payload.v, log |-> h.log]
             /\ base' = IF h.publish THEN payload.v ELSE base
             /\ ticksSince' = IF h.publish THEN 0 ELSE ticksSince
             /\ IF h.publish
                THEN /\ lastPublished' = _build_state(counter, trig_state, h.consumption)
                     /\ cmdSnap' = _build_state(counter, trig_state, h.consumption)
                     /\ nPublished' = nPublished + 1
                     /\ nCmdPublished' = nCmdPublished + 1
                     /\ cmdPc' = "pub"
                ELSE UNCHANGED <<lastPublished, cmdSnap, nPublished, nCmdPublished, cmdPc>>
    /\ nCmds' = nCmds + 1
    /\ UNCHANGED sideVars
    /\ UNCHANGED <<trig_state, schmittVars, configVars, store, pc, counter, shutdown, pollSnap,
                   nSaves, nPolls, nEvents, nRising, restored, lastPoll, failRun, entryShutdown,
                   run, trigAtStop,
                   shutdownAt>>

Command == CommandWith(Payloads)

\* Line 156: the handler's publish returned; save.
CmdSave ==
    /\ cmdPc = "pub"
    /\ pc \in AwaitPoints \cup {"done"}
    /\ store' = _save_state(store, counter, trig_state, consumption)
    /\ nSaves' = nSaves + 1
    /\ cmdPc' = "idle"
    /\ UNCHANGED sideVars
    /\ UNCHANGED <<trig_state, schmittVars, configVars, pc, counter, consumption, shutdown,
                   nPublished, lastPublished, pollSnap, cmdSnap, nPolls, nCmds, nEvents,
                   nRising, nCmdPublished, restored, lastPoll, auditVars>>

Next ==
    \/ Start
    \/ InitSave
    \/ LoopCheck
    \/ Poll
    \/ PollFail
    \/ PollSave
    \/ Wake
    \/ Shutdown
    \/ Command
    \/ CmdSave

Spec == Init /\ [][Next]_vars

\* The steps of the gas_counter coroutine itself.
MainStep ==
    \/ Start
    \/ InitSave
    \/ LoopCheck
    \/ Poll
    \/ PollFail
    \/ PollSave
    \/ Wake

\* The runs whose progress is examined: tracking on and off, started from
\* a record this program saved.
FairSettings ==
    {Settings(DefaultLevel, DefaultHysteresis, TRUE, DefaultLitersPerTick),
     Settings(0, 0, FALSE, DefaultLitersPerTick)}

FairRecords ==
    {StoreRecord(Raw("int", 41), Raw("float", 99500000), FALSE)}

InitFair ==
    /\ Init
    /\ settings \in FairSettings
    /\ store \in FairRecords

\* The event loop resumes every coroutine whose await has completed:
\* publish_state and ctx.sleep return (the sleep at the latest after the
\* poll interval), and the blocking read returns or raises. The coroutine
\* and a handler that has published therefore keep taking their steps.
SpecFair == InitFair /\ [][Next]_vars /\ WF_vars(MainStep) /\ WF_vars(CmdSave)

\* Commands that set the total to a number of either sign, and one payload
\* the handler rejects.
SignedPayloads ==
    {Payload("number", 1234567), Payload("number", -5000000), Payload("missing", 0)}

NextSigned ==
    \/ Start
    \/ InitSave
    \/ LoopCheck
    \/ Poll
    \/ PollFail
    \/ PollSave
    \/ Wake
    \/ Shutdown
    \/ CommandWith(SignedPayloads)
    \/ CmdSave

\* The loop started on a record with a non-negative total, with commands
\* of either sign.
SpecSigned == InitFair /\ [][NextSigned]_vars

\* A fresh gas_counter instance is started, with the same settings, against
\* the store the previous instance left when it returned. Its locals and
\* its transport are new; the reads and commands of all instances count
\* against MaxPolls and MaxCmds.
Restart ==
    /\ pc = "done"
    /\ cmdPc = "idle"
    /\ run < MaxRestarts
    /\ run' = run + 1
    /\ trigAtStop' = trig_state
    /\ pc' = "start"
    /\ shutdown' = FALSE
    /\ counter' = 0
    /\ consumption' = NoTracker
    /\ nPublished' = 0 /\ lastPublished' = NoSnapshot
    /\ pollSnap' = NoSnapshot /\ cmdSnap' = NoSnapshot
    /\ nSaves' = 0 /\ nEvents' = 0 /\ nRising' = 0
    /\ nCmdPublished' = 0 /\ restored' = 0
    /\ lastPoll' = "none"
    /\ failRun' = 0 /\ lastCmd' = NoCommand
    /\ base' = 0 /\ ticksSince' = 0
    /\ shutdownAt' = "none"
    /\ UNCHANGED sideVars
    /\ UNCHANGED <<trig_state, schmittVars, configVars, store, cmdPc, nPolls, nCmds,
                   entryShutdown>>

NextRestart ==
    \/ Next
    \/ Restart

\* The records the first instance of a restarted run loads.
RestartRecords ==
    {StoreRecord(Raw("int", 41), Raw("float", 99500000), FALSE),
     StoreRecord(Raw("int", COUNTER_MODULUS - 1), Raw("float", 1234000), FALSE)}

InitRestart ==
    /\ Init
    /\ settings \in FairSettings
    /\ store \in RestartRecords

\* Instances of gas_counter run one after the other on one backing store.
SpecRestart == InitRestart /\ [][NextRestart]_vars

\* ------------------------------------------- one SchmittTrigger object

\* The inputs fed to update(): every value from below the lowest lower
\* threshold to above the highest upper threshold.
BzRange == -(MaxLevel + MaxHyst + 1) .. (MaxLevel + MaxHyst + 1)

\* SchmittTrigger(level, hysteresis): _state starts LOW. The loop's
\* variables play no part.
InitSchmitt ==
    /\ trig_level \in -MaxLevel .. MaxLevel
    /\ trig_hysteresis \in 0 .. MaxHyst
    /\ trig_state = LOW
    /\ SchmittHistoryInit
    /\ settings = Settings(trig_level, trig_hysteresis, FALSE, DefaultLitersPerTick)
    /\ store = StoreRecord(Absent, Absent, FALSE)
    /\ LoopInit
    /\ shutdown = FALSE
    /\ EwmaIdle /\ TempIdle /\ StorageIdle /\ LifespanIdle
    /\ RestIdle

\* trigger.update(bz)
SchmittUpdate ==
    /\ \E bz \in BzRange :
         LET r == update(trig_state, trig_level, trig_hysteresis, bz)
         IN  /\ trig_state' = r.state
             /\ lastEvent' = r.event
             /\ lastBz' = bz
             /\ IF r.event.kind = "event"
                THEN /\ lastEmitted' = r.event.current
                     /\ prevEmitted' = lastEmitted
                ELSE UNCHANGED <<lastEmitted, prevEmitted>>
    /\ prevBz' = lastBz
    /\ prevState' = trig_state
    /\ lastOp' = "update"
    /\ prevOp' = lastOp
    /\ UNCHANGED sideVars
    /\ UNCHANGED <<configVars, loopVars, auditVars>>

\* trigger.reset()
SchmittReset ==
    /\ trig_state' = reset(trig_state)
    /\ prevState' = trig_state
    /\ lastEvent' = NoEvent
    /\ lastOp' = "reset"
    /\ prevOp' = lastOp
    /\ UNCHANGED sideVars
    /\ UNCHANGED <<lastBz, prevBz, lastEmitted, prevEmitted, configVars, loopVars,
                   auditVars>>

NextSchmitt ==
    \/ SchmittUpdate
    \/ SchmittReset

\* Any sequence of update() and reset() calls.
SpecSchmitt == InitSchmitt /\ [][NextSchmitt]_vars

\* Any sequence of update() calls.
SpecUpdates == InitSchmitt /\ [][SchmittUpdate]_vars

\* The gas_counter loop not entered: the state the other components'
\* specifications keep it in.
GasIdle ==
    /\ trig_level = 0 /\ trig_hysteresis = 0 /\ trig_state = LOW
    /\ SchmittHistoryInit
    /\ settings = Settings(0, 0, FALSE, DefaultLitersPerTick)
    /\ store = StoreRecord(Absent, Absent, FALSE)
    /\ LoopInit
    /\ shutdown = FALSE

\* --------------------------------------------------- one EwmaFilter object

\* ewma_alpha is in (0, 1]: 0.1, the default 0.2, 0.5 and 1.0.
Alphas == {1, DefaultAlpha, 5, AlphaDen}

\* The measurements fed to update(), in tenths of a degree.
EwmaInputs == {t * (TempUnit \div 10) : t \in {-5, 0, 203, 215}}

InitEwma ==
    /\ GasIdle
    /\ ewma_alpha \in Alphas
    /\ EwmaHistoryInit
    /\ TempIdle /\ StorageIdle /\ LifespanIdle
    /\ RestIdle

\* filter.update(raw)
EwmaUpdate ==
    /\ nSamples < MaxSamples
    /\ \E raw \in EwmaInputs :
         LET r == ewma_update(ewma_alpha, ewma_value, raw)
         IN  /\ ewma_value' = r
             /\ ewmaOut' = r.v
             /\ ewmaRaw' = raw
    /\ ewmaBefore' = ewma_value
    /\ ewmaOp' = "update"
    /\ nSamples' = nSamples + 1
    /\ UNCHANGED <<debugVars, adapterVars>>
    /\ UNCHANGED <<gasVars, ewma_alpha, tempVars, storageVars, fakeVars, lifespanVars>>

\* filter.reset()
EwmaReset ==
    /\ ewma_value' = ewma_reset(ewma_value)
    /\ ewmaBefore' = ewma_value
    /\ ewmaOp' = "reset"
    /\ UNCHANGED <<debugVars, adapterVars>>
    /\ UNCHANGED <<gasVars, ewma_alpha, ewmaRaw, ewmaOut, nSamples, tempVars, storageVars,
                   fakeVars, lifespanVars>>

NextEwma ==
    \/ EwmaUpdate
    \/ EwmaReset

\* Any sequence of update() and reset() calls on one filter.
SpecEwma == InitEwma /\ [][NextEwma]_vars

\* ---------------------------------------------- the temperature loop

\* reading.temperature_raw of the samples: 19.9, 20.3, 20.5, 20.7, 21.5 degrees
\* under the default calibration.
TempRaws == {-50, 0, 25, 50, 150}

InitTemp ==
    /\ GasIdle
    /\ ewma_alpha \in {DefaultAlpha, 5, AlphaDen}
    /\ EwmaHistoryInit
    /\ TempIdle /\ StorageIdle /\ LifespanIdle
    /\ RestIdle

\* One interval of the temperature telemetry: the handler reads the sensor
\* and updates the filter, then the publish strategy decides on the payload.
TempSample ==
    /\ nSamples < MaxSamples
    /\ \E temperature_raw \in TempRaws :
         LET h == temperature_handler(temp_settings, ewma_alpha, ewma_value,
                                      temperature_raw)
             publish == on_change(tempLast, h.temperature)
             payload == [has |-> TRUE, v |-> h.temperature]
         IN  /\ ewma_value' = h.value
             /\ ewmaOut' = h.value.v
             /\ ewmaRaw' = raw_celsius(temp_settings, temperature_raw)
             /\ tempPayload' = payload
             /\ tempWasPublished' = publish
             /\ tempLast' = IF publish THEN payload ELSE tempLast
             /\ nTempPublished' = nTempPublished + (IF publish THEN 1 ELSE 0)
    /\ ewmaBefore' = ewma_value
    /\ ewmaOp' = "update"
    /\ nSamples' = nSamples + 1
    /\ UNCHANGED <<debugVars, adapterVars>>
    /\ UNCHANGED <<gasVars, ewma_alpha, temp_settings, storageVars, fakeVars, lifespanVars>>

NextTemp == TempSample

SpecTemp == InitTemp /\ [][NextTemp]_vars

\* ------------------------------------------------- the state storage

\* The backing file when the adapter is constructed.
Objects == {File("object", m) : m \in [Keys -> DataSet \cup {NoData}]}
Corrupted ==
    {File(k, EmptyMap) : k \in {"nonobject", "invalid_json", "undecodable", "unreadable"}}

InitStorageWith(files) ==
    /\ GasIdle /\ EwmaIdle /\ TempIdle /\ LifespanIdle
    /\ RestIdle
    /\ stPathTmp \in BOOLEAN
    /\ file \in files
    /\ expect = file.m
    /\ StorageHistoryInit
    /\ FakeInit

InitStorage == InitStorageWith({NoFile} \cup Objects \cup Corrupted)

\* save(key, data) up to the creation of the parent directory (lines 56-66).
\* oks: whether mkdir can fail.
SaveBegin(oks) ==
    /\ stPc = "idle"
    /\ \E key \in Keys, data \in DataSet, mkdir_ok \in oks :
         LET existing == save_existing(file, key, data)
         IN  /\ IF existing.outcome = "raised" \/ ~mkdir_ok
                THEN /\ lastSave' = Call("raised", key, data)
                     /\ UNCHANGED <<stPc, pending>>
                ELSE /\ lastSave' = Call("running", key, data)
                     /\ stPc' = "open"
                     /\ pending' = [key |-> key, data |-> data,
                                    content |-> File("object", existing.m)]
             /\ expect' = [expect EXCEPT ![key] = data]
    /\ fileBefore' = file
    /\ lastLoad' = NoCall
    /\ UNCHANGED <<stPathTmp, file, tmpFile>>
    /\ UNCHANGED <<debugVars, adapterVars>>
    /\ UNCHANGED <<gasVars, ewmaVars, tempVars, fakeVars, lifespanVars>>

\* The file tmp_path names becomes f: the backing file itself when _path
\* already has the suffix ".tmp".
TmpBecomes(f) ==
    IF stPathTmp THEN file' = f /\ UNCHANGED tmpFile ELSE tmpFile' = f /\ UNCHANGED file

\* tmp_path.write_text, opening the file for writing (line 69).
SaveOpen(oks) ==
    /\ stPc = "open"
    /\ \E ok \in oks :
         IF ok
         THEN stPc' = "writing" /\ TmpBecomes(File("partial", EmptyMap))
         ELSE stPc' = "cleanup" /\ UNCHANGED <<file, tmpFile>>
    /\ UNCHANGED <<stPathTmp, pending, lastSave, lastLoad, expect, fileBefore>>
    /\ UNCHANGED <<debugVars, adapterVars>>
    /\ UNCHANGED <<gasVars, ewmaVars, tempVars, fakeVars, lifespanVars>>

\* tmp_path.write_text, writing the text (line 69).
SaveWrite(oks) ==
    /\ stPc = "writing"
    /\ \E ok \in oks :
         IF ok
         THEN stPc' = "replace" /\ TmpBecomes(pending.content)
         ELSE stPc' = "cleanup" /\ UNCHANGED <<file, tmpFile>>
    /\ UNCHANGED <<stPathTmp, pending, lastSave, lastLoad, expect, fileBefore>>
    /\ UNCHANGED <<debugVars, adapterVars>>
    /\ UNCHANGED <<gasVars, ewmaVars, tempVars, fakeVars, lifespanVars>>

\* tmp_path.replace(self._path) (line 70).
SaveReplace(oks) ==
    /\ stPc = "replace"
    /\ \E ok \in oks :
         IF ok
         THEN /\ stPc' = "idle"
              /\ lastSave' = Call("returned", pending.key, pending.data)
              /\ IF stPathTmp
                 THEN UNCHANGED <<file, tmpFile>>
                 ELSE file' = tmpFile /\ tmpFile' = NoFile
         ELSE stPc' = "cleanup" /\ UNCHANGED <<file, tmpFile, lastSave>>
    /\ UNCHANGED <<stPathTmp, pending, lastLoad, expect, fileBefore>>
    /\ UNCHANGED <<debugVars, adapterVars>>
    /\ UNCHANGED <<gasVars, ewmaVars, tempVars, fakeVars, lifespanVars>>

\* except OSError: the failure is logged and tmp_path is unlinked
\* (lines 71-74); save returns ("logged").
SaveCleanup ==
    /\ stPc = "cleanup"
    /\ stPc' = "idle"
    /\ TmpBecomes(NoFile)
    /\ lastSave' = Call("logged", pending.key, pending.data)
    /\ UNCHANGED <<stPathTmp, pending, lastLoad, expect, fileBefore>>
    /\ UNCHANGED <<debugVars, adapterVars>>
    /\ UNCHANGED <<gasVars, ewmaVars, tempVars, fakeVars, lifespanVars>>

\* The process is killed inside save().
StorageCrash ==
    /\ stPc \in {"open", "writing", "replace", "cleanup"}
    /\ stPc' = "dead"
    /\ lastSave' = Call("crashed", pending.key, pending.data)
    /\ UNCHANGED <<stPathTmp, file, tmpFile, pending, lastLoad, expect, fileBefore>>
    /\ UNCHANGED <<debugVars, adapterVars>>
    /\ UNCHANGED <<gasVars, ewmaVars, tempVars, fakeVars, lifespanVars>>

\* A new process constructs the adapter on the files the crash left.
StorageRestart ==
    /\ stPc = "dead"
    /\ stPc' = "idle"
    /\ UNCHANGED <<stPathTmp, file, tmpFile, pending, lastSave, lastLoad, expect, fileBefore>>
    /\ UNCHANGED <<debugVars, adapterVars>>
    /\ UNCHANGED <<gasVars, ewmaVars, tempVars, fakeVars, lifespanVars>>

\* load(key)
StorageLoad ==
    /\ stPc = "idle"
    /\ \E key \in Keys : lastLoad' = load(file, key)
    /\ UNCHANGED <<stPathTmp, file, tmpFile, stPc, pending, lastSave, expect, fileBefore>>
    /\ UNCHANGED <<debugVars, adapterVars>>
    /\ UNCHANGED <<gasVars, ewmaVars, tempVars, fakeVars, lifespanVars>>

\* FakeStorage.save(key, data)
FakeSave ==
    /\ \E key \in Keys, data \in DataSet :
         /\ fake' = fake_save(fake, key, data)
         /\ fakeExpect' = [fakeExpect EXCEPT ![key] = data]
    /\ fakeLoad' = NoCall
    /\ UNCHANGED <<debugVars, adapterVars>>
    /\ UNCHANGED <<gasVars, ewmaVars, tempVars, storageVars, lifespanVars>>

\* FakeStorage.load(key)
FakeLoad ==
    /\ \E key \in Keys : fakeLoad' = fake_load(fake, key)
    /\ UNCHANGED <<fake, fakeExpect>>
    /\ UNCHANGED <<debugVars, adapterVars>>
    /\ UNCHANGED <<gasVars, ewmaVars, tempVars, storageVars, lifespanVars>>

\* The adapter on any backing file, with writes that can fail and a process
\* that can be killed.
NextStorage ==
    \/ SaveBegin(BOOLEAN)
    \/ SaveOpen(BOOLEAN)
    \/ SaveWrite(BOOLEAN)
    \/ SaveReplace(BOOLEAN)
    \/ SaveCleanup
    \/ StorageCrash
    \/ StorageRestart
    \/ StorageLoad

SpecStorage == InitStorage /\ [][NextStorage]_vars

\* Both adapters on a working file system: the backing file is absent, one
\* the adapter wrote, or invalid JSON, and no call fails.
InitSaves == InitStorageWith({NoFile} \cup Objects \cup {File("invalid_json", EmptyMap)})

NextSaves ==
    \/ SaveBegin({TRUE})
    \/ SaveOpen({TRUE})
    \/ SaveWrite({TRUE})
    \/ SaveReplace({TRUE})
    \/ StorageLoad
    \/ FakeSave
    \/ FakeLoad

SpecSaves == InitSaves /\ [][NextSaves]_vars

\* ------------------------------------------------------- the lifespan

\* Mutant: close() is called after the yield, without try ... finally.
lifespan_exit_no_finally(outcome, closes) ==
    [nClose |-> IF outcome = "raised" THEN closes ELSE closes + 1, outcome |-> outcome]

\* lifespan after the yield (lines 36-39): finally calls close(), then the
\* context manager ends the way the body ended.
lifespan_exit(outcome, closes) ==
    [nClose |-> closes + 1, outcome |-> outcome]

\* lifespan up to the yield (lines 34-36). initialize() is called outside
\* the try: when it raises (no sensor on the bus) the body is never entered.
LifespanEnter ==
    /\ lsPc = "before"
    /\ nInitialize' = nInitialize + 1
    /\ \E ok \in BOOLEAN :
         IF ok
         THEN lsPc' = "body" /\ UNCHANGED lsOutcome
         ELSE lsPc' = "exited" /\ lsOutcome' = "raised"
    /\ UNCHANGED <<nClose, bodyOutcome>>
    /\ UNCHANGED <<debugVars, adapterVars>>
    /\ UNCHANGED <<gasVars, ewmaVars, tempVars, storageVars, fakeVars>>

\* The body of the context: the application runs the gas counter.
BodyStep == lsPc = "body" /\ Next

\* The body returns or raises; the generator is resumed and runs finally.
BodyEnd ==
    /\ lsPc = "body"
    /\ \E outcome \in {"returned", "raised"} :
         LET r == lifespan_exit(outcome, nClose)
         IN  /\ bodyOutcome' = outcome
             /\ nClose' = r.nClose
             /\ lsOutcome' = r.outcome
    /\ lsPc' = "exited"
    /\ UNCHANGED nInitialize
    /\ UNCHANGED <<debugVars, adapterVars>>
    /\ UNCHANGED <<gasVars, ewmaVars, tempVars, storageVars, fakeVars>>

NextApp ==
    \/ LifespanEnter
    \/ BodyStep
    \/ BodyEnd

SpecApp == InitFair /\ [][NextApp]_vars

\* ------------------------------------------------ the application wiring

\* The positional parameters of gas_counter (gas_counter.py:105-108), none
\* with a default.
gas_counter_params == {"ctx", "store"}

\* The arguments the registered device function passes: gas_counter(ctx)
\* (main.py:95).
_gas_counter_args == {"ctx"}

\* A Python call: TypeError when a required positional argument is missing.
call(params, args) == IF params \subseteq args THEN "entered" ELSE "TypeError"

\* The framework starts the device registered as "gas_counter": the
\* function _gas_counter calls gas_counter, which runs up to its initial
\* publish when the call binds its parameters; otherwise the exception
\* leaves the device function.
DeviceCall ==
    /\ lsPc = "body"
    /\ pc = "start"
    /\ IF call(gas_counter_params, _gas_counter_args) = "entered"
       THEN Start
       ELSE /\ pc' = "crashed"
            /\ UNCHANGED sideVars
            /\ UNCHANGED <<trig_state, schmittVars, configVars, store, counter, consumption,
                           shutdown, cmdPc, nPublished, lastPublished, pollSnap, cmdSnap,
                           nSaves, nPolls, nCmds, nEvents, nRising, nCmdPublished, restored,
                           lastPoll, auditVars>>

\* The temperature telemetry registered next to it runs while the
\* application does.
TelemetryStep == lsPc = "body" /\ TempSample

NextWiring ==
    \/ LifespanEnter
    \/ DeviceCall
    \/ TelemetryStep
    \/ BodyEnd

\* The application built by create_app(): the lifespan, the gas_counter
\* device as registered, and the temperature telemetry.
SpecWiring == InitFair /\ [][NextWiring]_vars

\* ------------------------------------------------- the debug device

\* The readings the sensor returns to the debug device.
DebugReadings ==
    {[bx |-> 120, by |-> -456, bz |-> -5800],
     [bx |-> 123, by |-> -456, bz |-> -5000],
     [bx |-> 0, by |-> 0, bz |-> 0],
     [bx |-> -1, by |-> 1, bz |-> -4200],
     [bx |-> -32768, by |-> 32767, bz |-> -4000]}

\* The handler of make_magnetometer_handler: the payload of one reading.
magnetometer_handler(reading) ==
    [bx |-> reading.bx, by |-> reading.by, bz |-> reading.bz, has |-> TRUE]

InitDebug ==
    /\ GasIdle /\ EwmaIdle /\ TempIdle /\ StorageIdle /\ LifespanIdle /\ AdapterIdle
    /\ dbgEnabled \in BOOLEAN
    /\ dbgShutdown \in BOOLEAN
    /\ DebugInit

\* await ctx.publish_state(await handler()): the handler reads the sensor
\* and the payload is published, or the read raises OSError, which leaves
\* the coroutine.
DbgReadAndPublish ==
    /\ nDbgReads' = nDbgReads + 1
    /\ dbgLate' = IF dbgShutdown /\ dbgPc = "sleep" THEN dbgLate + 1 ELSE dbgLate
    /\ \/ \E reading \in DebugReadings :
            /\ dbgLast' = magnetometer_handler(reading)
            /\ nDbgPublished' = nDbgPublished + 1
            /\ dbgPc' = "pub"
       \/ /\ dbgPc' = "crashed"
          /\ UNCHANGED <<dbgLast, nDbgPublished>>

\* magnetometer_device up to its first publish (lines 56-62).
DbgEnter ==
    /\ dbgPc = "start"
    /\ IF ~dbgEnabled
       THEN /\ dbgPc' = "done"
            /\ UNCHANGED <<nDbgReads, nDbgPublished, dbgLate, dbgLast>>
       ELSE DbgReadAndPublish
    /\ UNCHANGED <<dbgEnabled, dbgShutdown>>
    /\ UNCHANGED <<gasVars, ewmaVars, tempVars, storageVars, fakeVars, lifespanVars, adapterVars>>

\* The publish returned: while not ctx.shutdown_requested (line 63).
DbgLoopCheck ==
    /\ dbgPc = "pub"
    /\ dbgShutdown \/ nDbgReads < MaxPolls
    /\ dbgPc' = IF loop_continues(dbgShutdown) THEN "sleep" ELSE "done"
    /\ UNCHANGED <<dbgEnabled, dbgShutdown, nDbgReads, nDbgPublished, dbgLate, dbgLast>>
    /\ UNCHANGED <<gasVars, ewmaVars, tempVars, storageVars, fakeVars, lifespanVars, adapterVars>>

\* ctx.sleep returned, after the interval or early on shutdown; the next
\* statement reads and publishes (lines 64-65).
DbgWake ==
    /\ dbgPc = "sleep"
    /\ DbgReadAndPublish
    /\ UNCHANGED <<dbgEnabled, dbgShutdown>>
    /\ UNCHANGED <<gasVars, ewmaVars, tempVars, storageVars, fakeVars, lifespanVars, adapterVars>>

\* The framework sets the shutdown event.
DbgShutdown ==
    /\ ~dbgShutdown
    /\ dbgPc \notin {"done", "crashed"}
    /\ dbgShutdown' = TRUE
    /\ UNCHANGED <<dbgEnabled, dbgPc, nDbgReads, nDbgPublished, dbgLate, dbgLast>>
    /\ UNCHANGED <<gasVars, ewmaVars, tempVars, storageVars, fakeVars, lifespanVars, adapterVars>>

NextDebug ==
    \/ DbgEnter
    \/ DbgLoopCheck
    \/ DbgWake
    \/ DbgShutdown

SpecDebug == InitDebug /\ [][NextDebug]_vars

\* ------------------------------------------------ adapters/qmc5883l.py

\* a | b on non-negative integers.
RECURSIVE BitOr(_, _)
BitOr(a, b) ==
    IF a = 0 THEN b
    ELSE IF b = 0 THEN a
    ELSE (IF a % 2 = 1 \/ b % 2 = 1 THEN 1 ELSE 0) + 2 * BitOr(a \div 2, b \div 2)

\* Mutant: the sign bit is tested with > instead of >=.
to_signed_16_le_strict(lsb, msb) ==
    LET value == BitOr(msb * 256, lsb)
    IN  IF value > 32768 THEN value - 65536 ELSE value

\* _to_signed_16_le: value = (msb << 8) | lsb; 0x10000 is subtracted when
\* value >= 0x8000.
_to_signed_16_le(lsb, msb) ==
    LET value == BitOr(msb * 256, lsb)
    IN  IF value >= 32768 THEN value - 65536 ELSE value

Bytes == 0 .. 255

InitBytes ==
    /\ GasIdle /\ EwmaIdle /\ TempIdle /\ StorageIdle /\ LifespanIdle /\ DebugIdle
    /\ AdapterInit
    /\ rdLsb \in Bytes /\ rdMsb \in Bytes
    /\ rdValue = 0

\* _to_signed_16_le(lsb, msb) is called on the two bytes.
Convert ==
    /\ adLast.op = "none"
    /\ rdValue' = _to_signed_16_le(rdLsb, rdMsb)
    /\ adLast' = AdCall("convert", "returned", FALSE)
    /\ UNCHANGED <<bus, nOpen, nCalls, rdLsb, rdMsb>>
    /\ UNCHANGED <<gasVars, ewmaVars, tempVars, storageVars, fakeVars, lifespanVars, debugVars>>

NextBytes == Convert

\* The conversion on every pair of bytes.
SpecBytes == InitBytes /\ [][NextBytes]_vars

\* The bytes of the Z axis in the block a read returns.
ByteSamples == {0, 127, 128, 255}

\* Mutant: read() does not test self._bus.
adapter_read_unguarded(b, transfer_ok) ==
    IF transfer_ok THEN AdCall("read", "returned", TRUE) ELSE AdCall("read", "OSError", TRUE)

\* Qmc5883lAdapter.read: RuntimeError when _bus is None; otherwise the block
\* read on the bus, which returns the bytes or raises OSError.
adapter_read(b, transfer_ok) ==
    IF b = "none" THEN AdCall("read", "RuntimeError", FALSE)
    ELSE IF transfer_ok THEN AdCall("read", "returned", TRUE)
    ELSE AdCall("read", "OSError", TRUE)

InitAdapter ==
    /\ GasIdle /\ EwmaIdle /\ TempIdle /\ StorageIdle /\ LifespanIdle /\ DebugIdle
    /\ AdapterIdle

\* initialize(): SMBus(bus_number) raises and _bus is as before; or the new
\* bus object is assigned to _bus and the two register writes succeed or
\* raise OSError. A bus object _bus held before is not closed.
AdInitialize ==
    /\ nCalls < MaxCalls
    /\ \E outcome \in {"returned", "open_failed", "write_failed"} :
         IF outcome = "open_failed"
         THEN /\ adLast' = AdCall("initialize", "OSError", FALSE)
              /\ UNCHANGED <<bus, nOpen>>
         ELSE /\ bus' = "open"
              /\ nOpen' = nOpen + 1
              /\ adLast' = AdCall("initialize",
                                  IF outcome = "returned" THEN "returned" ELSE "OSError", TRUE)
    /\ nCalls' = nCalls + 1
    /\ UNCHANGED <<rdLsb, rdMsb, rdValue>>
    /\ UNCHANGED <<gasVars, ewmaVars, tempVars, storageVars, fakeVars, lifespanVars, debugVars>>

\* read()
AdRead ==
    /\ nCalls < MaxCalls
    /\ \E transfer_ok \in BOOLEAN, lsb \in ByteSamples, msb \in ByteSamples :
         LET r == adapter_read(bus, transfer_ok)
         IN  /\ adLast' = r
             /\ IF r.outcome = "returned"
                THEN /\ rdLsb' = lsb /\ rdMsb' = msb
                     /\ rdValue' = _to_signed_16_le(lsb, msb)
                ELSE UNCHANGED <<rdLsb, rdMsb, rdValue>>
    /\ nCalls' = nCalls + 1
    /\ UNCHANGED <<bus, nOpen>>
    /\ UNCHANGED <<gasVars, ewmaVars, tempVars, storageVars, fakeVars, lifespanVars, debugVars>>

\* close(): closes _bus and sets it to None when it is not None.
AdClose ==
    /\ nCalls < MaxCalls
    /\ IF bus # "none"
       THEN /\ bus' = "none"
            /\ nOpen' = nOpen - 1
            /\ adLast' = AdCall("close", "returned", TRUE)
       ELSE /\ adLast' = AdCall("close", "returned", FALSE)
            /\ UNCHANGED <<bus, nOpen>>
    /\ nCalls' = nCalls + 1
    /\ UNCHANGED <<rdLsb, rdMsb, rdValue>>
    /\ UNCHANGED <<gasVars, ewmaVars, tempVars, storageVars, fakeVars, lifespanVars, debugVars>>

NextAdapter ==
    \/ AdInitialize
    \/ AdRead
    \/ AdClose

\* Any sequence of initialize(), read() and close() on one adapter.
SpecAdapter == InitAdapter /\ [][NextAdapter]_vars

\* ---------------------------------------------------------------- claims

Upper == trig_level + trig_hysteresis
Lower == trig_level - trig_hysteresis
Started == pc \notin {"start", "crashed"}
InRange(n) == n \in 0 .. (COUNTER_MODULUS - 1)

\* The publishes so far: the initial one, one per comparator event in the
\* loop, one per command that published.
C1_PublishCount ==
    nPublished = (IF Started THEN 1 ELSE 0) + nEvents + nCmdPublished

\* One iteration's read (a step out of "read"): it publishes exactly when
\* the comparator returned an event, and without one nothing is published,
\* nothing is saved and the coroutine goes to sleep.
C1_PollStep ==
    (pc = "read" /\ pc' # "read") =>
        /\ (nPublished' = nPublished + 1) <=> (lastPoll' = "event")
        /\ (nPublished' = nPublished) <=> (lastPoll' # "event")
        /\ (lastPoll' = "event") <=> (trig_state' # trig_state)
        /\ lastPoll' # "event" =>
              /\ pc' = "sleep"
              /\ store' = store /\ nSaves' = nSaves
              /\ lastPublished' = lastPublished

\* C1: in the polling loop a snapshot is published in an iteration if and
\* only if the comparator returned an event for that iteration's reading; an
\* iteration without an event publishes nothing and persists nothing. The
\* number of published snapshots is the initial one plus one per comparator
\* event plus one per command that published (so 1 + events without commands).
C1_PublishIffEvent == [][C1_PollStep]_vars /\ []C1_PublishCount

C1_Witness ==
    /\ nCmds = 0 /\ nPolls >= 3 /\ nEvents = 2 /\ nPublished = 3
    /\ lastPoll = "no_event" /\ pc = "sleep"

\* C2: on each rising edge the counter becomes (counter + 1) mod 65536 and
\* on a falling edge or no event it is unchanged, so that after any sequence
\* of reads the counter equals (restored value + rising edges) mod 65536.
C2_CounterIsRestoredPlusRising ==
    Started => counter = (restored + nRising) % COUNTER_MODULUS

\* C3: the tick counter is an integer in [0, 65535] in every reachable state
\* of the loop: after restore from any persisted record, in every published
\* snapshot and in every persisted record.
C3_CounterInRange ==
    Started =>
        /\ InRange(counter)
        /\ InRange(lastPublished.counter)
        /\ nSaves > 0 => (store.counter.k = "int" /\ InRange(store.counter.v))

\* C4: update(v) with level - hysteresis <= v <= level + hysteresis returns
\* no event and leaves the state unchanged, from either state; the state
\* becomes HIGH only for v > level + hysteresis and LOW only for
\* v < level - hysteresis.
C4_DeadBandInclusive ==
    lastOp = "update" =>
        /\ (Lower <= lastBz /\ lastBz <= Upper) =>
              (lastEvent = NoEvent /\ trig_state = prevState)
        /\ (trig_state # prevState /\ trig_state = HIGH) => lastBz > Upper
        /\ (trig_state # prevState /\ trig_state = LOW) => lastBz < Lower

C4_Witness ==
    /\ lastOp = "update" /\ trig_hysteresis > 0
    /\ lastBz = Lower /\ prevState = HIGH /\ trig_state = HIGH

\* C5: over any sequence of update() calls the comparator never emits two
\* consecutive events with the same current state; the events alternate
\* HIGH, LOW, HIGH, ... and the first one is HIGH.
C5_EventsAlternate ==
    lastEmitted # "none" =>
        /\ lastEmitted # prevEmitted
        /\ prevEmitted = "none" => lastEmitted = HIGH

C5_Witness ==
    /\ lastEmitted = HIGH /\ prevEmitted = LOW
    /\ lastEvent = NoEvent /\ lastBz > Upper

\* C6: update() returns an event exactly when the state changes; the
\* event's previous is the state before the call, its current the state
\* after it, and is_rising_edge holds iff previous is LOW and current HIGH.
C6_EventIffStateChange ==
    lastOp = "update" =>
        /\ (lastEvent.kind = "event") <=> (trig_state # prevState)
        /\ lastEvent.kind = "event" =>
              /\ lastEvent.previous = prevState
              /\ lastEvent.current = trig_state
              /\ lastEvent.is_rising_edge <=>
                    (lastEvent.previous = LOW /\ lastEvent.current = HIGH)

C6_Witness ==
    /\ lastOp = "update" /\ lastEvent.kind = "event"
    /\ prevState = HIGH /\ trig_state = LOW /\ ~lastEvent.is_rising_edge

\* C7: after update(v), a second update with the same value, or with any
\* value past the same threshold in the same direction, returns no event and
\* leaves the state unchanged.
C7_RepeatedUpdateIdempotent ==
    (/\ lastOp = "update" /\ prevOp = "update"
     /\ \/ lastBz = prevBz
        \/ (lastBz > Upper /\ prevBz > Upper)
        \/ (lastBz < Lower /\ prevBz < Lower))
    => (lastEvent = NoEvent /\ trig_state = prevState)

C7_Witness ==
    /\ lastOp = "update" /\ prevOp = "update"
    /\ prevBz > Upper /\ lastBz > Upper /\ lastBz # prevBz
    /\ trig_state = HIGH /\ lastEvent = NoEvent

\* The publish/persist sequences in progress: a path has published and not
\* yet saved.
InProgress ==
    (IF pc \in {"init_pub", "pub"} THEN 1 ELSE 0) + (IF cmdPc = "pub" THEN 1 ELSE 0)

\* The store holds the snapshot without its trigger.
Persisted(snapshot) ==
    /\ store.counter = Raw("int", snapshot.counter)
    /\ snapshot.has_consumption => store.consumption_m3 = Raw("float", snapshot.consumption_m3)

\* C8: every publish of the loop (initial, on a transition, on a command) is
\* followed by a save: the saves equal the publishes less the sequences in
\* progress; and whenever no sequence is in progress the persisted record
\* has the counter of the most recently published snapshot, and its
\* consumption_m3 when tracking is enabled.
C8_PersistedIsLastPublished ==
    /\ nPublished = nSaves + InProgress
    /\ (Started /\ InProgress = 0) => Persisted(lastPublished)

C8_Witness ==
    /\ pc = "sleep" /\ cmdPc = "idle" /\ InProgress = 0
    /\ nCmdPublished >= 1 /\ nRising >= 1 /\ nSaves >= 3
    /\ lastPublished.has_consumption /\ lastPublished.consumption_m3 > 0

\* C9: after any save by the loop the persisted record has no trigger
\* field, whatever record was loaded at startup.
C9_NoTriggerPersisted ==
    nSaves > 0 => ~store.has_trigger

\* A save step of either path writes the snapshot that path published, and
\* at most one publish/persist sequence is in progress.
C10_SaveStep ==
    /\ (pc \in {"init_pub", "pub"} /\ pc' \notin {"init_pub", "pub"}) =>
          /\ store'.counter = Raw("int", pollSnap.counter)
          /\ pollSnap.has_consumption =>
                store'.consumption_m3 = Raw("float", pollSnap.consumption_m3)
    /\ (cmdPc = "pub" /\ cmdPc' = "idle") =>
          /\ store'.counter = Raw("int", cmdSnap.counter)
          /\ cmdSnap.has_consumption =>
                store'.consumption_m3 = Raw("float", cmdSnap.consumption_m3)
    /\ InProgress' <= 1

\* C10: the command handler's set-publish-persist sequence and an
\* iteration's count-publish-persist sequence are atomic with respect to
\* each other: no step of one runs between the mutation and the persist of
\* the other, so each path persists the snapshot it published.
C10_SequencesAtomic == [][C10_SaveStep]_vars

\* C11: an iteration whose sensor read raises an I/O error changes
\* nothing: the counter, the comparator state and the accumulator are as
\* before, nothing is published, nothing is persisted, and the error stays
\* inside the loop, which goes on to its sleep.
C11_FailedReadStep ==
    (pc = "read" /\ lastPoll' = "oserror" /\ nPolls' = nPolls + 1) =>
        /\ counter' = counter
        /\ trig_state' = trig_state
        /\ consumption' = consumption
        /\ nPublished' = nPublished /\ lastPublished' = lastPublished
        /\ store' = store /\ nSaves' = nSaves
        /\ pc' = "sleep"

C11_FailedReadChangesNothing == [][C11_FailedReadStep]_vars

C11_Witness ==
    /\ lastPoll = "oserror" /\ pc = "sleep"
    /\ trig_state = HIGH /\ nRising = 1 /\ nPublished = 2 /\ nSaves = 2

\* After failed reads the loop is at its sleep, its check or its next read,
\* or has ended because shutdown was requested.
C12_StillRunning ==
    (lastPoll = "oserror" /\ failRun > 0) =>
        \/ pc \in {"sleep", "check", "read"}
        \/ (pc = "done" /\ shutdown)

\* C12: after any finite run of consecutive failing reads the loop is
\* still running: unless shutdown is requested it goes on to the next read,
\* and the snapshot published by the next successful read that crosses a
\* threshold is eventually persisted, the loop going to sleep after it.
C12_RecoversAfterFailures ==
    /\ []C12_StillRunning
    /\ (pc = "sleep" /\ lastPoll = "oserror" /\ nPolls < MaxPolls)
          ~> (pc = "read" \/ shutdown)
    /\ (pc = "pub" /\ failRun > 0)
          ~> (/\ pc = "sleep"
              /\ store.counter = Raw("int", pollSnap.counter)
              /\ Persisted(lastPublished))

C12_Witness ==
    /\ failRun >= 2 /\ lastPoll = "event" /\ pc = "sleep"
    /\ nRising = 1 /\ store.counter = Raw("int", restored + 1)
    /\ nSaves = 2 /\ ~shutdown

\* The field holds no number: it is absent, a string that is no numeric
\* literal, or a value of a non-numeric type.
Malformed(raw) == raw.k \in {"absent", "str_bad", "null", "other"}

\* C13: restoring state at startup never fails: for every persisted
\* record, including one whose counter or consumption_m3 is absent, a
\* non-numeric string or of a non-numeric type, the loop starts, uses 0 for
\* each absent or malformed field and publishes its initial state.
C13_RestoreNeverFails ==
    /\ pc # "crashed"
    /\ (pc = "init_pub" /\ nSaves = 0 /\ nCmds = 0) =>
          /\ nPublished = 1
          /\ Malformed(store.counter) => lastPublished.counter = 0
          /\ (settings.enable_consumption_tracking /\ Malformed(store.consumption_m3)) =>
                (lastPublished.has_consumption /\ lastPublished.consumption_m3 = 0)

\* The first step of an instance started on the store a previous instance
\* left: it publishes the persisted counter and consumption_m3, with the
\* trigger OPEN.
C14_FirstSnapshotStep ==
    (run > 0 /\ pc = "start" /\ pc' # "start") =>
        /\ pc' = "init_pub" /\ nPublished' = 1
        /\ store.counter.k = "int" /\ lastPublished'.counter = store.counter.v
        /\ lastPublished'.trigger = "OPEN"
        /\ settings.enable_consumption_tracking =>
              /\ lastPublished'.has_consumption
              /\ store.consumption_m3.k = "float"
              /\ lastPublished'.consumption_m3 = store.consumption_m3.v

\* C14: persistence round trip: the first snapshot published by a fresh
\* loop instance started against the backing store left by a previous
\* instance shows the counter and consumption_m3 of the last persisted
\* record, and its trigger is OPEN whatever the comparator state was before
\* the shutdown.
C14_RoundTrip == [][C14_FirstSnapshotStep]_vars

C14_Witness ==
    /\ run = 1 /\ pc = "init_pub" /\ trigAtStop = HIGH
    /\ lastPublished.trigger = "OPEN"
    /\ lastPublished.counter = 42
    /\ lastPublished.has_consumption /\ lastPublished.consumption_m3 = 99510000

\* A command step (the handler runs up to its publish or its return).
CommandStep == nCmds' = nCmds + 1

\* The handler's save step.
CmdSaveStep == cmdPc = "pub" /\ cmdPc' = "idle"

\* The payload of the command being handled carries a JSON number.
NumericPayload == lastCmd'.k \in {"number", "huge_int"}

\* The handler, given a number with tracking enabled, sets the total to it
\* and publishes the snapshot with that total; its save writes the
\* snapshot it published; neither touches the counter or the comparator.
C15_SetStep ==
    /\ (CommandStep /\ consumption.present /\ NumericPayload) =>
          /\ lastCmd'.log = "info"
          /\ lastCmd'.k = "number" => consumption'.consumption_m3 = lastCmd'.v
          /\ nPublished' = nPublished + 1
          /\ lastPublished' = _build_state(counter, trig_state, consumption')
          /\ cmdPc' = "pub"
          /\ counter' = counter /\ trig_state' = trig_state
    /\ CmdSaveStep =>
          /\ store'.counter = Raw("int", cmdSnap.counter)
          /\ cmdSnap.has_consumption =>
                store'.consumption_m3 = Raw("float", cmdSnap.consumption_m3)
          /\ counter' = counter /\ trig_state' = trig_state

\* C15: a set-consumption command with a numeric consumption_m3, received
\* while tracking is enabled, overwrites the running total with that value,
\* publishes the updated snapshot and persists it, and leaves the tick
\* counter and the comparator state unchanged.
C15_SetConsumption == [][C15_SetStep]_vars

\* With tracking disabled the handler returns after its warning.
C16_DroppedStep ==
    (CommandStep /\ ~settings.enable_consumption_tracking) =>
        /\ lastCmd'.log = "warning"
        /\ cmdPc' = "idle"
        /\ UNCHANGED <<counter, trig_state, consumption, pc>>
        /\ UNCHANGED <<nPublished, lastPublished, nCmdPublished>>
        /\ UNCHANGED <<store, nSaves>>

\* C16: a set-consumption command received while tracking is disabled is
\* dropped, for every payload: no state changes, nothing is published,
\* nothing is persisted and the handler returns normally.
C16_DroppedWhenDisabled ==
    /\ [][C16_DroppedStep]_vars
    /\ [](~settings.enable_consumption_tracking => nCmdPublished = 0)

C16_Witness ==
    /\ ~settings.enable_consumption_tracking
    /\ nCmds = 2 /\ lastCmd.k = "number" /\ lastCmd.log = "warning"
    /\ nRising = 1 /\ nPublished = 2 /\ nSaves = 2 /\ cmdPc = "idle"
    /\ ~lastPublished.has_consumption

\* The payload of the command being handled is not valid JSON, is JSON
\* that is no object, is an object without consumption_m3, or has a
\* consumption_m3 that is no JSON number.
MalformedPayload ==
    lastCmd'.k \in {"invalid_json", "scalar", "list", "missing", "numeric_string",
                    "bad_string", "bad_type"}

C17_MalformedStep ==
    (CommandStep /\ consumption.present /\ MalformedPayload) =>
        /\ lastCmd'.log = "error"
        /\ cmdPc' = "idle"
        /\ UNCHANGED <<counter, trig_state, consumption, pc>>
        /\ UNCHANGED <<nPublished, lastPublished, nCmdPublished>>
        /\ UNCHANGED <<store, nSaves>>

\* C17: for every malformed command payload (not valid JSON, JSON that is
\* not an object, an object without consumption_m3, a consumption_m3 that
\* is not a number) the handler logs an error, takes no other action
\* (consumption, counter and trigger unchanged, no publish, no persist) and
\* returns normally.
C17_MalformedRejected == [][C17_MalformedStep]_vars

\* An iteration's successful read calls tick() once when the comparator
\* returned a rising edge and not at all otherwise.
C18_TickStep ==
    (pc = "read" /\ lastPoll' # "oserror" /\ nPolls' = nPolls + 1 /\ consumption.present) =>
        consumption' = IF nRising' = nRising + 1 THEN tick(consumption) ELSE consumption

\* The running total is the base plus one per-tick volume per rising edge.
C18_Total ==
    (Started /\ consumption.present) =>
        consumption.consumption_m3 = base + ticksSince * consumption.liters_per_tick

\* C18: with tracking enabled tick() is called exactly once per rising
\* edge and never on a falling edge or a poll without event; the running
\* total equals base + n * liters_per_tick / 1000, where base is the
\* restored initial value or the value of the most recent set_consumption
\* and n the rising edges since then.
C18_TotalIsBasePlusTicks == [][C18_TickStep]_vars /\ []C18_Total

C18_Witness ==
    /\ consumption.present /\ nCmdPublished = 1 /\ base = 55500000
    /\ ticksSince = 1 /\ nRising = 2 /\ nEvents = 3
    /\ consumption.consumption_m3 = 55510000

\* The publishes and saves made by the coroutine itself, not by the
\* command handler.
LoopPublished == nPublished - nCmdPublished
LoopSaves == nSaves - (nCmdPublished - (IF cmdPc = "pub" THEN 1 ELSE 0))

\* C19: at startup the loop publishes the initial snapshot and persists it
\* before the first sensor read; this happens even when shutdown is already
\* requested on entry, and then the loop publishes exactly that one
\* snapshot, makes one save and never reads the sensor.
C19_InitialBeforeFirstRead ==
    /\ (pc = "read" \/ nPolls > 0) => (LoopPublished >= 1 /\ LoopSaves >= 1)
    /\ (Started /\ entryShutdown) =>
          /\ pc \in {"init_pub", "check", "done"}
          /\ nPolls = 0 /\ lastPoll = "none"
          /\ LoopPublished = 1
          /\ pc = "done" => LoopSaves = 1

C19_Witness ==
    /\ entryShutdown /\ pc = "done" /\ nCmds = 0
    /\ nPublished = 1 /\ nSaves = 1 /\ nPolls = 0
    /\ Persisted(lastPublished)

\* At the iteration boundary a set shutdown flag ends the loop; a read is
\* only started by a check that found the flag unset.
C20_CheckStep ==
    /\ (pc = "check" /\ shutdown) => pc' \in {"check", "done"}
    /\ (pc # "read" /\ pc' = "read") => (pc = "check" /\ ~shutdown)

\* C20: once the shutdown signal is set the polling loop terminates: the
\* sleep returns, the flag is checked at the next iteration boundary and no
\* further sensor read is started after that check, so the loop exits after
\* at most the iteration in progress.
C20_TerminatesOnShutdown ==
    /\ [][C20_CheckStep]_vars
    /\ shutdown ~> (pc \in {"done", "crashed"})
    /\ [](pc = "done" => shutdown)

C20_Witness ==
    /\ pc = "done" /\ shutdown /\ ~entryShutdown
    /\ nPolls = 2 /\ lastPoll = "event" /\ nSaves >= 2

\* An iteration that has published saves next, shutdown or not.
C21_FinishStep ==
    (pc = "pub" /\ shutdown /\ pc' # "pub") =>
        /\ pc' = "sleep"
        /\ nSaves' = nSaves + 1
        /\ store'.counter = Raw("int", counter)

\* When the loop has ended, every counted transition is in the last
\* published snapshot and in the persisted record.
C21_AllCounted ==
    pc = "done" =>
        /\ lastPublished.counter = counter
        /\ store.counter = Raw("int", counter)
        /\ LoopSaves = LoopPublished

\* C21: shutdown is not preemptive: when the shutdown signal arrives after
\* an iteration's read has produced an event, that iteration still
\* completes its counter update, publish and persist before the loop exits,
\* so no transition is counted without being published and persisted.
C21_ShutdownNotPreemptive ==
    /\ [][C21_FinishStep]_vars
    /\ []C21_AllCounted
    /\ (shutdownAt = "pub") ~> (pc = "done" /\ store.counter = Raw("int", pollSnap.counter))

C21_Witness ==
    /\ pc = "done" /\ shutdownAt = "pub"
    /\ nRising = 1 /\ counter = restored + 1
    /\ lastPublished.counter = counter /\ store.counter = Raw("int", counter)
    /\ nSaves = 2

\* The shape of a published snapshot: consumption_m3 is a key exactly when
\* tracking is enabled, and trigger spells the comparator state.
ShapeOf(snapshot) ==
    /\ snapshot.has_consumption <=> settings.enable_consumption_tracking
    /\ snapshot.trigger \in {"OPEN", "CLOSED"}
    /\ snapshot.trigger = "CLOSED" <=> trig_state = HIGH

\* C22: the published payload shape is fixed for the lifetime of the loop:
\* with tracking enabled every published snapshot has the keys counter,
\* trigger and consumption_m3, with tracking disabled exactly counter and
\* trigger, and the trigger field is CLOSED exactly when the comparator
\* state is HIGH, otherwise OPEN.
C22_PayloadShape ==
    Started => ShapeOf(lastPublished)

C22_Witness ==
    /\ Started /\ settings.enable_consumption_tracking
    /\ trig_state = HIGH /\ lastPublished.trigger = "CLOSED"
    /\ lastPublished.has_consumption /\ nCmdPublished = 1 /\ nEvents = 1
    /\ lastPublished.counter = restored + 1

\* After reset() the state is LOW and no event was returned.
C23_AfterReset ==
    lastOp = "reset" => (trig_state = LOW /\ lastEvent = NoEvent)

\* The update that follows a reset(), with a value above the upper
\* threshold, returns a rising-edge event.
C23_UpdateAfterResetStep ==
    (lastOp = "reset" /\ lastOp' = "update" /\ lastBz' > Upper) =>
        /\ lastEvent'.kind = "event" /\ lastEvent'.is_rising_edge
        /\ lastEvent'.previous = LOW /\ lastEvent'.current = HIGH
        /\ trig_state' = HIGH

\* C23: reset() sets the state to LOW from either state without emitting
\* an event, and after reset() from HIGH the next update above the upper
\* threshold emits a rising-edge event.
C23_ResetToLow == []C23_AfterReset /\ [][C23_UpdateAfterResetStep]_vars

C23_Witness ==
    /\ lastOp = "update" /\ prevOp = "reset" /\ lastBz > Upper
    /\ lastEvent.kind = "event" /\ lastEvent.is_rising_edge
    /\ prevEmitted = HIGH /\ lastEmitted = HIGH

\* C24: the low-pass filter has no value before its first update and after
\* reset(); the first update(x) on a fresh or reset filter stores and
\* returns x unchanged; every later update(raw) stores and returns
\* (1 - alpha) * previous + alpha * raw, so that with alpha = 1 the output
\* always equals the input.
C24_EwmaFormula ==
    /\ ewmaOp \in {"none", "reset"} => ~ewma_value.has
    /\ ewmaOp = "update" =>
          /\ ewma_value.has /\ ewma_value.v = ewmaOut
          /\ ~ewmaBefore.has => ewmaOut = ewmaRaw
          /\ ewmaBefore.has =>
                AlphaDen * ewmaOut =
                    (AlphaDen - ewma_alpha) * ewmaBefore.v + ewma_alpha * ewmaRaw
          /\ ewma_alpha = AlphaDen => ewmaOut = ewmaRaw

C24_Witness ==
    /\ ewmaOp = "update" /\ ewma_alpha = DefaultAlpha /\ nSamples = 3
    /\ ewmaBefore.has /\ ewmaBefore.v = 203 * (TempUnit \div 10)
    /\ ewmaRaw = 215 * (TempUnit \div 10)
    /\ 10 * ewmaOut = 2054 * (TempUnit \div 10)

\* C25: in the temperature loop the filter is updated on every interval
\* whether or not anything is published; a temperature state is published
\* only when the value rounded to 1 decimal differs from the last published
\* value by more than the threshold (0.05), and suppressed samples still
\* move the filter state used by later samples.
C25_EverySampleFiltered ==
    nSamples > 0 =>
        /\ ewma_value.has
        /\ tempPayload.has /\ tempPayload.v = round1(ewma_value.v)
        /\ ~ewmaBefore.has => ewma_value.v = ewmaRaw
        /\ ewmaBefore.has =>
              AlphaDen * ewma_value.v =
                  (AlphaDen - ewma_alpha) * ewmaBefore.v + ewma_alpha * ewmaRaw
        /\ tempWasPublished => tempLast = tempPayload
        /\ ~tempWasPublished =>
              /\ tempLast.has
              /\ 10 * AbsDiff(tempPayload.v, tempLast.v) <= OnChangeThreshold

C25_SampleStep ==
    /\ nSamples' = nSamples + 1
    /\ ewmaBefore' = ewma_value
    /\ (tempWasPublished' /\ tempLast.has) =>
          10 * AbsDiff(tempPayload'.v, tempLast.v) > OnChangeThreshold
    /\ ~tempWasPublished' => UNCHANGED <<tempLast, nTempPublished>>
    /\ tempWasPublished' => nTempPublished' = nTempPublished + 1

C25_OnChangeGate == []C25_EverySampleFiltered /\ [][C25_SampleStep]_vars

\* 20.3, 20.5, 21.5 degrees with alpha 0.2: the second sample gives 20.34,
\* which is suppressed, and the third gives 0.8 * 20.34 + 0.2 * 21.5 = 20.572.
C25_Witness ==
    /\ nSamples = 3 /\ ewma_alpha = DefaultAlpha
    /\ nTempPublished = 2 /\ tempWasPublished
    /\ ewmaBefore.v = 2034 * (TempUnit \div 100)
    /\ ewma_value.v = 20572 * (TempUnit \div 1000)
    /\ tempLast.v = 206

\* C29: the application lifespan calls the sensor's initialize() before the
\* body runs and calls close() exactly once when the body ends, also when
\* the body raises an exception; the exception is then re-raised to the
\* caller.
C29_Bracket ==
    /\ (lsPc = "body" \/ pc # "start") => nInitialize = 1
    /\ lsPc = "body" => nClose = 0
    /\ bodyOutcome = "none" => nClose = 0
    /\ bodyOutcome # "none" =>
          /\ lsPc = "exited" /\ nInitialize = 1 /\ nClose = 1
          /\ lsOutcome = bodyOutcome

C29_ExitStep ==
    (lsPc = "body" /\ lsPc' = "exited") => (nClose' = nClose + 1 /\ bodyOutcome' # "none")

C29_Lifespan == []C29_Bracket /\ [][C29_ExitStep]_vars

C29_Witness ==
    /\ lsPc = "exited" /\ bodyOutcome = "raised" /\ lsOutcome = "raised"
    /\ nInitialize = 1 /\ nClose = 1 /\ nPolls > 0

\* The file is there and json.loads does not yield an object from it.
CorruptedKinds == {"nonobject", "invalid_json", "partial", "undecodable", "unreadable"}

\* C26: JsonFileStorage.load(key) never raises: it returns no state when the
\* file is absent, when the key is missing, and for every corrupted backing
\* file (invalid JSON, unreadable file, or valid JSON whose top level is not
\* an object); otherwise it returns the record stored under the key.
C26_LoadNeverRaises ==
    /\ lastLoad.outcome # "raised"
    /\ lastLoad.outcome = "returned" =>
          lastLoad.data = IF file.k = "object" THEN file.m[lastLoad.key] ELSE NoData

\* C27: JsonFileStorage.save(key, data) never surfaces a failure to its
\* caller: for every prior content of the backing file (absent, corrupted,
\* valid JSON of any top-level type) and for a failing write, save returns
\* normally; when the prior file was corrupted and the write succeeds, a
\* later load(key) returns data.
C27_SaveNeverRaises ==
    /\ lastSave.outcome # "raised"
    /\ (/\ lastSave.outcome = "returned"
        /\ fileBefore.k \in CorruptedKinds
        /\ lastLoad.outcome # "none"
        /\ lastLoad.key = lastSave.key) =>
          lastLoad = Call("returned", lastSave.key, lastSave.data)

\* C28: for JsonFileStorage and FakeStorage, after any sequence of saves
\* load(k) returns the data of the most recent save(k, ...) for every key k:
\* saving under one key leaves the records of all other keys unchanged, and
\* a later save under the same key replaces the earlier one.
C28_LastSaveWins ==
    /\ stPc = "idle" =>
          /\ \A k \in Keys : load(file, k) = Call("returned", k, expect[k])
          /\ lastLoad.outcome # "none" =>
                lastLoad = Call("returned", lastLoad.key, expect[lastLoad.key])
    /\ \A k \in Keys : fake_load(fake, k) = Call("returned", k, fakeExpect[k])
    /\ fakeLoad.outcome # "none" =>
          fakeLoad = Call("returned", fakeLoad.key, fakeExpect[fakeLoad.key])

\* "other" was saved first, "gas_counter" twice after it, and "other" is
\* loaded from both adapters.
C28_Witness ==
    /\ stPc = "idle"
    /\ lastSave = Call("returned", "gas_counter", "d2")
    /\ fileBefore = File("object", [EmptyMap EXCEPT !["gas_counter"] = "d1", !["other"] = "d1"])
    /\ lastLoad = Call("returned", "other", "d1")
    /\ fake = [EmptyMap EXCEPT !["gas_counter"] = "d2", !["other"] = "d1"]
    /\ fakeLoad = Call("returned", "other", "d1")

\* C30: JsonFileStorage.save is atomic with respect to a crash or write
\* failure at any step: at every instant the backing file holds either the
\* complete previous content or the complete new content, never a partial
\* write, and after save returns (success or failure) no temporary file
\* remains.
C30_AtomicSave ==
    /\ lastSave.outcome # "none" => file \in {fileBefore, pending.content}
    /\ lastSave.outcome = "returned" => file = pending.content
    /\ (stPc = "idle" /\ lastSave.outcome \in {"returned", "logged"}) => tmpFile = NoFile

\* The first sensor read of an instance started after a restart.
FirstReadAfterRestart ==
    run > 0 /\ pc = "read" /\ lastPoll = "none" /\ nPolls' = nPolls + 1

C31_FirstReadStep ==
    (FirstReadAfterRestart /\ trigAtStop = HIGH) => counter' = counter

\* C31: a restart never counts one rotation twice: if the comparator was
\* HIGH when the process stopped and the signal stays above the upper
\* threshold across the restart, the restarted loop does not increment the
\* counter until the signal has first fallen below the lower threshold and
\* risen again. (No reading lies between the stop and the first read of the
\* new instance, so that read must not increment the counter.)
C31_NoDoubleCount == [][C31_FirstReadStep]_vars

\* C32: persistence loses no accumulated volume: for every liters_per_tick
\* > 0 and every number of ticks, the consumption total a restarted loop's
\* accumulator starts from equals the accumulator's unrounded total at the
\* time of the last save. (When the loop has returned, no command was
\* handled and every save is complete, the accumulator holds the total of
\* the last save.)
C32_NoVolumeLost ==
    (pc = "done" /\ cmdPc = "idle" /\ nCmds = 0 /\ nSaves > 0 /\ consumption.present) =>
        LET restored_tracker == _restore_consumption(store, settings)
        IN  /\ restored_tracker.ok
            /\ restored_tracker.value.consumption_m3 = consumption.consumption_m3

\* A step that publishes a snapshot after an earlier one of the same run.
NextSnapshot == nPublished >= 1 /\ nPublished' = nPublished + 1

C33_SnapshotStep ==
    NextSnapshot =>
        /\ lastPublished'.counter \in
              {lastPublished.counter, (lastPublished.counter + 1) % COUNTER_MODULUS}
        /\ lastPublished'.counter = (lastPublished.counter + 1) % COUNTER_MODULUS
              <=> nRising' = nRising + 1
        /\ nRising' = nRising + 1 => lastPublished'.trigger = "CLOSED"

\* C33: in the sequence of snapshots published by one loop instance, under
\* every interleaving of polls and commands, each snapshot's counter equals
\* the previous snapshot's counter or that counter plus one mod 65536; it is
\* plus one exactly for snapshots produced by a rising edge, and those
\* snapshots have trigger CLOSED.
C33_CounterSteps == [][C33_SnapshotStep]_vars

\* A command's snapshot between a falling edge and the rising edge that
\* wraps the counter.
C33_Witness ==
    /\ restored = COUNTER_MODULUS - 1 /\ nRising = 2 /\ nEvents = 3 /\ nCmdPublished = 1
    /\ pc = "pub" /\ lastPublished.counter = 1 /\ lastPublished.trigger = "CLOSED"

\* The counter a restart would restore from the record is n ticks behind
\* the counter in memory.
PersistedBehind(n) ==
    LET persisted == _restore_counter(store)
    IN  persisted.ok /\ (persisted.value + n) % COUNTER_MODULUS = counter % COUNTER_MODULUS

\* C34: at every instant of a run, including between a publish and its save
\* and under any interleaving with commands, the persisted counter equals
\* the in-memory counter or is exactly one increment behind it (mod 65536);
\* a process stop at any point therefore loses at most one tick.
C34_AtMostOneTickBehind ==
    Started => (PersistedBehind(0) \/ PersistedBehind(1))

\* Between the publish of a rising edge and its save, with a command's
\* publish pending as well.
C34_Witness ==
    /\ pc = "pub" /\ cmdPc = "pub" /\ nRising = 2
    /\ PersistedBehind(1) /\ ~PersistedBehind(0)

\* The coroutine's position changes along read -> (pub ->) sleep -> check
\* -> read: a read is followed by the sleep, directly or after the publish
\* and its save, and the next read is reached only from the loop condition
\* after that sleep has returned.
C35_IterationStep ==
    /\ (pc = "read" /\ pc' # "read") => pc' \in {"pub", "sleep"}
    /\ (pc = "pub" /\ pc' # "pub") => (pc' = "sleep" /\ nSaves' = nSaves + 1)
    /\ (pc = "sleep" /\ pc' # "sleep") => pc' = "check"
    /\ (pc' = "read" /\ pc # "read") => pc = "check"
    /\ (pc' = "check" /\ pc # "check") =>
          (pc = "sleep" \/ (pc = "init_pub" /\ lastPoll = "none"))

\* C35: every loop iteration ends with exactly one sleep of the poll
\* interval before the next sensor read, whether the read failed, produced
\* no event, or produced an event that was published and persisted; two
\* sensor reads never occur without a sleep between them.
C35_OneSleepPerIteration == [][C35_IterationStep]_vars

\* The third read is about to happen, after an iteration with an event and
\* one whose read failed.
C35_Witness ==
    /\ pc = "read" /\ nPolls = 2 /\ nEvents = 1 /\ lastPoll = "oserror" /\ nSaves = 2

\* C36: if the restored consumption is non-negative, then consumption_m3 is
\* non-negative in every published snapshot and every persisted record,
\* after any sequence of ticks and set-consumption commands.
C36_NonNegative ==
    /\ lastPublished.has_consumption => lastPublished.consumption_m3 >= 0
    /\ store.consumption_m3.k \in {"int", "float"} => store.consumption_m3.v >= 0

\* C37: when the application built by create_app() starts its registered
\* gas_counter device, the polling coroutine gas_counter is invoked with
\* both the device context and a device store, so the device reaches its
\* initial publish instead of failing at the call.
C37_DeviceReachesInitialPublish ==
    pc # "start" => (pc = "init_pub" /\ nPublished = 1)

\* C38: the debug magnetometer device, when enable_debug_device is false,
\* returns immediately without reading the sensor or publishing; when
\* enabled, it publishes one reading at start and one after each sleep, and
\* once shutdown has been requested it performs no further sensor read and
\* publishes no further state.
C38_DebugDevice ==
    /\ ~dbgEnabled => (nDbgReads = 0 /\ nDbgPublished = 0 /\ dbgPc \in {"start", "done"})
    /\ (dbgEnabled /\ dbgPc \notin {"start", "crashed"}) =>
          (nDbgPublished >= 1 /\ nDbgPublished = nDbgReads)
    /\ dbgLate = 0

\* C39: for all bytes lsb, msb in 0..255, _to_signed_16_le(lsb, msb) returns
\* the two's-complement value of the 16-bit word msb*256 + lsb: the result
\* lies in [-32768, 32767], equals the word when the word is below 32768
\* and the word minus 65536 otherwise, and result mod 65536 equals the word.
C39_TwosComplement ==
    adLast.op = "convert" =>
        LET word == rdMsb * 256 + rdLsb
        IN  /\ rdValue \in -32768 .. 32767
            /\ word < 32768 => rdValue = word
            /\ word >= 32768 => rdValue = word - 65536
            /\ rdValue % 65536 = word

C39_Witness ==
    adLast.op = "convert" /\ rdLsb = 0 /\ rdMsb = 128 /\ rdValue = -32768

C40_AfterCall ==
    /\ adLast.op = "read" =>
          /\ adLast.outcome = "returned" => bus = "open"
          /\ adLast.outcome = "RuntimeError" <=> bus = "none"
          /\ adLast.outcome = "RuntimeError" => ~adLast.touched
    /\ adLast.op = "close" => (bus = "none" /\ adLast.outcome = "returned")

C40_CallStep ==
    /\ (bus = "none" /\ bus' = "open") => adLast'.op = "initialize"
    /\ (nCalls' = nCalls + 1 /\ adLast'.op = "close" /\ bus = "none") =>
          (~adLast'.touched /\ UNCHANGED <<bus, nOpen>>)

====
